---- MODULE Spec2Model ----
(***************************************************************************)
(* Formula engine of the spreadsheet: cell references, lexer, recursive    *)
(* descent parser, tree walking evaluator, cells, the sparse table and the *)
(* table service (edit, full recalculation pass, resize, clear, export and *)
(* load).                                                                  *)
(*                                                                         *)
(* Texts are sequences of one-character strings.  Numbers are kept in      *)
(* thousandths (the evaluator rounds a quotient to 3 decimals), so the     *)
(* integer n of the program is the model value n * Scale.                  *)
(***************************************************************************)
EXTENDS Integers, Sequences, FiniteSets, TLC

\* ------------------------------------------------------------------ bounds
\* Operations of the table service in one session.
MaxOps == 6

\* ------------------------------------------------------- program constants
DefaultRows == 10
DefaultColumns == 10
Scale == 1000
AlphabetSize == 26

\* -------------------------------------------------------------- characters
Letters ==
  << "A", "B", "C", "D", "E", "F", "G", "H", "I", "J", "K", "L", "M",
     "N", "O", "P", "Q", "R", "S", "T", "U", "V", "W", "X", "Y", "Z" >>

LowerLetters ==
  << "a", "b", "c", "d", "e", "f", "g", "h", "i", "j", "k", "l", "m",
     "n", "o", "p", "q", "r", "s", "t", "u", "v", "w", "x", "y", "z" >>

DigitChars == << "0", "1", "2", "3", "4", "5", "6", "7", "8", "9" >>

IsSpace(c) == c = " "

IsDigit(c) == \E i \in 1..Len(DigitChars) : DigitChars[i] = c

IsUpper(c) == \E i \in 1..Len(Letters) : Letters[i] = c

\* an uppercase letter outside A..Z: the Cyrillic capital Ya, U+042F
CyrillicYa == "U+042F"

\* str.isalpha() and str.isupper() of one character
IsUpperAlpha(c) == IsUpper(c) \/ c = CyrillicYa

IsLower(c) == \E i \in 1..Len(LowerLetters) : LowerLetters[i] = c

\* a character of the regular expression class \w
IsWordChar(c) == IsDigit(c) \/ IsUpper(c) \/ IsLower(c) \/ c = "_"

IndexOf(seq, c) == CHOOSE i \in 1..Len(seq) : seq[i] = c

\* str.upper()
ToUpper(s) ==
  [i \in 1..Len(s) |->
     IF IsLower(s[i]) THEN Letters[IndexOf(LowerLetters, s[i])] ELSE s[i]]

\* ord() of an uppercase letter
Ord(c) == IF c = CyrillicYa THEN 1071 ELSE 64 + IndexOf(Letters, c)

Min(S) == CHOOSE x \in S : \A y \in S : x <= y

\* str.strip()
Strip(s) ==
  LET keep == { i \in 1..Len(s) : ~IsSpace(s[i]) }
  IN  IF keep = {} THEN << >>
      ELSE SubSeq(s, Min(keep), CHOOSE x \in keep : \A y \in keep : y <= x)

\* int() of a run of decimal digits
RECURSIVE DigitsToInt(_)
DigitsToInt(ds) ==
  IF ds = << >> THEN 0
  ELSE DigitsToInt(SubSeq(ds, 1, Len(ds) - 1)) * 10
         + (IndexOf(DigitChars, ds[Len(ds)]) - 1)

\* str() of a natural number
RECURSIVE IntToDigits(_)
IntToDigits(n) ==
  IF n < 10 THEN << DigitChars[n + 1] >>
  ELSE Append(IntToDigits(n \div 10), DigitChars[(n % 10) + 1])

\* Optional values: None, or a one-element tuple holding the value.
None == << >>

Some(v) == << v >>

\* ----------------------------------------------------------- CellReference
CellReference(column, row) == [column |-> column, row |-> row]

\* CellReference.__post_init__: TRUE where it does not raise ValueError
post_init(ref) ==
  /\ ref.column # << >>
  /\ \A i \in 1..Len(ref.column) : IsUpperAlpha(ref.column[i])
  /\ ref.row >= 1

\* CellReference.to_string
to_string(ref) == ref.column \o IntToDigits(ref.row)

\* CellReference._column_to_index
RECURSIVE ColumnValue(_)
ColumnValue(column) ==
  IF column = << >> THEN 0
  ELSE ColumnValue(SubSeq(column, 1, Len(column) - 1)) * AlphabetSize
         + (Ord(column[Len(column)]) - Ord("A") + 1)

column_to_index(column) == ColumnValue(column) - 1

\* CellReference._index_to_column: the loop on index + 1
RECURSIVE IndexLoop(_, _)
IndexLoop(index, column) ==
  IF index > 0
  THEN IndexLoop((index - 1) \div AlphabetSize,
                 << Letters[((index - 1) % AlphabetSize) + 1] >> \o column)
  ELSE column

index_to_column(index) == IndexLoop(index + 1, << >>)

\* CellReference.to_indices: (row_index, col_index)
to_indices(ref) == << ref.row - 1, column_to_index(ref.column) >>

\* CellReference.from_indices
from_indices(row_index, col_index) ==
  CellReference(index_to_column(col_index), row_index + 1)

\* first index >= i of s that does not hold a digit (Len(s) + 1 if none)
DigitsEnd(s, i) ==
  Min({ j \in i..(Len(s) + 1) : j = Len(s) + 1 \/ ~IsDigit(s[j]) })

\* first index >= i of s that does not hold an uppercase letter
UpperEnd(s, i) ==
  Min({ j \in i..(Len(s) + 1) : j = Len(s) + 1 \/ ~IsUpper(s[j]) })

\* CellReference.from_string: [ok, ref]; ok is FALSE where the code raises
\* ValueError (no match of ^([A-Z]+)(\d+)$, or a row < 1)
from_string(text) ==
  LET s == ToUpper(Strip(text))
      u == UpperEnd(s, 1)
      d == DigitsEnd(s, u)
      row == DigitsToInt(SubSeq(s, u, Len(s)))
  IN  IF u > 1 /\ u <= Len(s) /\ d = Len(s) + 1 /\ row >= 1
      THEN [ok |-> TRUE, ref |-> CellReference(SubSeq(s, 1, u - 1), row)]
      ELSE [ok |-> FALSE, ref |-> CellReference(<< >>, 0)]

\* ------------------------------------------------------------------- lexer
Token(type, value, position) ==
  [type |-> type, value |-> value, position |-> position]

\* does word w stand in s at index i, with \b on both sides
MatchWord(s, i, w) ==
  /\ i + Len(w) - 1 <= Len(s)
  /\ SubSeq(s, i, i + Len(w) - 1) = w
  /\ (i = 1 \/ ~IsWordChar(s[i - 1]))
  /\ (i + Len(w) > Len(s) \/ ~IsWordChar(s[i + Len(w)]))

\* TOKEN_PATTERNS in the order the lexer tries them at index i (a non-space
\* character): [type, end], end the index after the match; type "NONE" when
\* no pattern matches
MatchToken(s, i) ==
  LET c == s[i]
      one(type) == [type |-> type, end |-> i + 1]
  IN  IF IsDigit(c) THEN [type |-> "NUMBER", end |-> DigitsEnd(s, i)]
      ELSE IF IsUpper(c) /\ UpperEnd(s, i) <= Len(s)
                /\ IsDigit(s[UpperEnd(s, i)])
        THEN [type |-> "CELL_REF", end |-> DigitsEnd(s, UpperEnd(s, i))]
      ELSE IF c = "^" THEN one("POWER")
      ELSE IF c = "=" THEN one("EQUAL")
      ELSE IF c = "<" THEN one("LESS")
      ELSE IF c = ">" THEN one("GREATER")
      ELSE IF c = "+" THEN one("PLUS")
      ELSE IF c = "-" THEN one("MINUS")
      ELSE IF c = "*" THEN one("MULTIPLY")
      ELSE IF c = "/" THEN one("DIVIDE")
      ELSE IF MatchWord(s, i, << "n", "o", "t" >>)
        THEN [type |-> "NOT", end |-> i + 3]
      ELSE IF MatchWord(s, i, << "a", "n", "d" >>)
        THEN [type |-> "AND", end |-> i + 3]
      ELSE IF MatchWord(s, i, << "o", "r" >>)
        THEN [type |-> "OR", end |-> i + 2]
      ELSE IF c = "(" THEN one("LPAREN")
      ELSE IF c = ")" THEN one("RPAREN")
      ELSE [type |-> "NONE", end |-> i]

\* ExpressionParser._tokenize: [ok, tokens, position]; positions are the
\* 0-based offsets of the code; ok is FALSE on an unknown character
RECURSIVE TokenizeFrom(_, _, _)
TokenizeFrom(s, i, acc) ==
  IF i > Len(s)
  THEN [ok |-> TRUE, tokens |-> Append(acc, Token("EOF", << >>, i - 1)),
        position |-> i - 1]
  ELSE IF IsSpace(s[i]) THEN TokenizeFrom(s, i + 1, acc)
  ELSE LET m == MatchToken(s, i)
       IN  IF m.type = "NONE"
           THEN [ok |-> FALSE, tokens |-> << >>, position |-> i - 1]
           ELSE TokenizeFrom(s, m.end,
                  Append(acc, Token(m.type, SubSeq(s, i, m.end - 1), i - 1)))

tokenize(expression) == TokenizeFrom(expression, 1, << >>)

\* --------------------------------------------------------------------- AST
\* the absent AST (Cell.ast is None)
NoneNode == [type |-> "None"]

NumberNode(value) == [type |-> "NumberNode", value |-> value]

CellRefNode(reference) == [type |-> "CellRefNode", reference |-> reference]

UnaryOpNode(operator, operand) ==
  [type |-> "UnaryOpNode", operator |-> operator, operand |-> operand]

BinaryOpNode(operator, left, right) ==
  [type |-> "BinaryOpNode", operator |-> operator, left |-> left,
   right |-> right]

\* ------------------------------------------------------------------ parser
\* A parsing step returns [ok, node, pos, position]: on success the node and
\* the parser's current_pos after it; on ExpressionSyntaxError ok = FALSE
\* and the error's source position.
Parsed(node, pos) == [ok |-> TRUE, node |-> node, pos |-> pos, position |-> 0]

SyntaxErr(position) ==
  [ok |-> FALSE, node |-> NoneNode, pos |-> 0, position |-> position]

\* ExpressionParser._current_token (pos is the 0-based current_pos)
current_token(tokens, pos) ==
  IF pos < Len(tokens) THEN tokens[pos + 1] ELSE tokens[Len(tokens)]

\* No operand parsed yet: the state of a loop of the parser before its
\* first operand.
Nothing == [ok |-> TRUE, node |-> NoneNode, pos |-> 0, position |-> 0]

\* left = BinaryOpNode(operator, left, right) in the parser's loops: the
\* operand right itself when it is the first one, and right's syntax error
\* when it has one
binary(operator, left, right) ==
  IF ~right.ok THEN right
  ELSE IF left.node = NoneNode THEN right
  ELSE Parsed(BinaryOpNode(operator, left.node, right.node), right.pos)

\* UnaryOpNode(operator, operand) of a parsed operand
unary(operator, operand) ==
  IF operand.ok
  THEN Parsed(UnaryOpNode(operator, operand.node), operand.pos)
  ELSE operand

RECURSIVE parse_expression(_, _), parse_logical_or(_, _), or_operand(_, _, _)
RECURSIVE or_loop(_, _), parse_logical_and(_, _), and_operand(_, _, _)
RECURSIVE and_loop(_, _), parse_comparison(_, _)
RECURSIVE comparison_operand(_, _, _, _), comparison_rest(_, _)
RECURSIVE parse_additive(_, _), additive_operand(_, _, _, _)
RECURSIVE additive_loop(_, _), parse_multiplicative(_, _)
RECURSIVE multiplicative_operand(_, _, _, _), multiplicative_loop(_, _)
RECURSIVE parse_power(_, _), parse_unary(_, _), parse_primary(_, _)

\* ExpressionParser._parse_expression
parse_expression(tokens, pos) == parse_logical_or(tokens, pos)

\* _parse_logical_or: an operand (the first, or the one after an 'or') is
\* parsed at pos and joined to left, then the loop condition is tested
or_operand(tokens, left, pos) ==
  or_loop(tokens, binary("or", left, parse_logical_and(tokens, pos)))

\* the while condition of _parse_logical_or
or_loop(tokens, left) ==
  IF ~left.ok THEN left
  ELSE IF current_token(tokens, left.pos).type = "OR"
    THEN or_operand(tokens, left, left.pos + 1)
  ELSE left

\* ExpressionParser._parse_logical_or
parse_logical_or(tokens, pos) == or_operand(tokens, Nothing, pos)

\* _parse_logical_and: an operand is parsed at pos and joined to left
and_operand(tokens, left, pos) ==
  and_loop(tokens, binary("and", left, parse_comparison(tokens, pos)))

\* the while condition of _parse_logical_and
and_loop(tokens, left) ==
  IF ~left.ok THEN left
  ELSE IF current_token(tokens, left.pos).type = "AND"
    THEN and_operand(tokens, left, left.pos + 1)
  ELSE left

\* ExpressionParser._parse_logical_and
parse_logical_and(tokens, pos) == and_operand(tokens, Nothing, pos)

\* _parse_comparison: an operand is parsed at pos; the first one may be
\* followed by one comparison operator and a second operand, the second
\* one ends the comparison
comparison_operand(tokens, operator, left, pos) ==
  IF left.node = NoneNode
  THEN comparison_rest(tokens,
         binary(operator, left, parse_additive(tokens, pos)))
  ELSE binary(operator, left, parse_additive(tokens, pos))

\* the if of _parse_comparison: at most one comparison operator
comparison_rest(tokens, left) ==
  IF ~left.ok THEN left
  ELSE IF current_token(tokens, left.pos).type \in {"EQUAL", "LESS", "GREATER"}
    THEN comparison_operand(tokens, current_token(tokens, left.pos).value[1],
                            left, left.pos + 1)
  ELSE left

\* ExpressionParser._parse_comparison
parse_comparison(tokens, pos) == comparison_operand(tokens, "=", Nothing, pos)

\* an additive level whose operands are powers: the multiplicative level
\* is left out of the descent
additive_operand_of_powers(tokens, operator, left, pos) ==
  additive_loop(tokens, binary(operator, left, parse_power(tokens, pos)))

\* _parse_additive: an operand is parsed at pos and joined to left
additive_operand(tokens, operator, left, pos) ==
  additive_loop(tokens,
    binary(operator, left, parse_multiplicative(tokens, pos)))

\* the while condition of _parse_additive
additive_loop(tokens, left) ==
  IF ~left.ok THEN left
  ELSE IF current_token(tokens, left.pos).type = "PLUS"
    THEN additive_operand(tokens, "+", left, left.pos + 1)
  ELSE IF current_token(tokens, left.pos).type = "MINUS"
    THEN additive_operand(tokens, "-", left, left.pos + 1)
  ELSE left

\* ExpressionParser._parse_additive
parse_additive(tokens, pos) == additive_operand(tokens, "+", Nothing, pos)

\* a multiplicative level that takes everything after an operator as its
\* right operand, and so associates to the right
multiplicative_operand_right(tokens, operator, left, pos) ==
  IF left.node = NoneNode
  THEN multiplicative_loop(tokens,
         binary(operator, left, parse_power(tokens, pos)))
  ELSE binary(operator, left, parse_multiplicative(tokens, pos))

\* _parse_multiplicative: an operand is parsed at pos and joined to left
multiplicative_operand(tokens, operator, left, pos) ==
  multiplicative_loop(tokens,
    binary(operator, left, parse_power(tokens, pos)))

\* the while condition of _parse_multiplicative
multiplicative_loop(tokens, left) ==
  IF ~left.ok THEN left
  ELSE IF current_token(tokens, left.pos).type = "MULTIPLY"
    THEN multiplicative_operand(tokens, "*", left, left.pos + 1)
  ELSE IF current_token(tokens, left.pos).type = "DIVIDE"
    THEN multiplicative_operand(tokens, "/", left, left.pos + 1)
  ELSE left

\* ExpressionParser._parse_multiplicative
parse_multiplicative(tokens, pos) ==
  multiplicative_operand(tokens, "*", Nothing, pos)

\* the if of _parse_power after its left operand: the right operand is a
\* power again
power_rest(tokens, left) ==
  IF ~left.ok THEN left
  ELSE IF current_token(tokens, left.pos).type = "POWER"
    THEN binary("^", left, parse_power(tokens, left.pos + 1))
  ELSE left

\* ExpressionParser._parse_power
parse_power(tokens, pos) == power_rest(tokens, parse_unary(tokens, pos))

\* the operator an unary token stands for
unary_operator(type) ==
  IF type = "PLUS" THEN "+" ELSE IF type = "MINUS" THEN "-" ELSE "not"

\* ExpressionParser._parse_unary
parse_unary(tokens, pos) ==
  IF current_token(tokens, pos).type \in {"PLUS", "MINUS", "NOT"}
  THEN unary(unary_operator(current_token(tokens, pos).type),
             parse_unary(tokens, pos + 1))
  ELSE parse_primary(tokens, pos)

\* the number branch of _parse_primary
number_primary(token, pos) ==
  Parsed(NumberNode(DigitsToInt(token.value)), pos + 1)

\* the cell reference branch of _parse_primary: the ValueError of
\* CellReference.from_string is raised again as a syntax error
cell_ref_primary(token, pos) ==
  IF from_string(token.value).ok
  THEN Parsed(CellRefNode(from_string(token.value).ref), pos + 1)
  ELSE SyntaxErr(token.position)

\* _consume(TOKEN_RPAREN) after the parenthesised expression expr
close_paren(tokens, expr) ==
  IF ~expr.ok THEN expr
  ELSE IF current_token(tokens, expr.pos).type = "RPAREN"
    THEN Parsed(expr.node, expr.pos + 1)
  ELSE SyntaxErr(current_token(tokens, expr.pos).position)

\* ExpressionParser._parse_primary
parse_primary(tokens, pos) ==
  IF current_token(tokens, pos).type = "NUMBER"
  THEN number_primary(current_token(tokens, pos), pos)
  ELSE IF current_token(tokens, pos).type = "CELL_REF"
    THEN cell_ref_primary(current_token(tokens, pos), pos)
  ELSE IF current_token(tokens, pos).type = "LPAREN"
    THEN close_paren(tokens, parse_expression(tokens, pos + 1))
  ELSE SyntaxErr(current_token(tokens, pos).position)

\* a parse that returns what _parse_expression parsed, whatever follows it
end_of_input_unchecked(tokens, ast) == ast

\* the check of ExpressionParser.parse that every token is consumed
end_of_input(tokens, ast) ==
  IF ~ast.ok THEN ast
  ELSE IF current_token(tokens, ast.pos).type # "EOF"
    THEN SyntaxErr(current_token(tokens, ast.pos).position)
  ELSE ast

\* ExpressionParser.parse on the lexer's outcome
parse_tokens(lexed) ==
  IF ~lexed.ok THEN SyntaxErr(lexed.position)
  ELSE end_of_input(lexed.tokens, parse_expression(lexed.tokens, 0))

\* ExpressionParser.parse: [ok, node, pos, position]
parse(expression) ==
  IF Strip(expression) = << >> THEN SyntaxErr(0)
  ELSE parse_tokens(tokenize(Strip(expression)))

\* -------------------------------------------------------------------- Cell
\* Cell.__init__
NewCell ==
  [expression |-> << >>, ast |-> NoneNode, cached_value |-> None,
   error |-> None, is_dirty |-> TRUE]

\* Cell.invalidate
invalidate(cell) ==
  [cell EXCEPT !.ast = NoneNode, !.cached_value = None, !.error = None,
               !.is_dirty = TRUE]

\* Cell.invalidate_value
invalidate_value(cell) ==
  [cell EXCEPT !.cached_value = None, !.error = None, !.is_dirty = TRUE]

\* an expression setter that drops the values and keeps the AST
set_expression_keeping_ast(cell, value) ==
  IF cell.expression # value
  THEN invalidate_value([cell EXCEPT !.expression = value])
  ELSE cell

\* an expression setter that invalidates on every assignment
set_expression_always(cell, value) ==
  invalidate([cell EXCEPT !.expression = value])

\* Cell.expression setter
set_expression(cell, value) ==
  IF cell.expression # value
  THEN invalidate([cell EXCEPT !.expression = value])
  ELSE cell

\* Cell.ast setter
set_ast(cell, value) == [cell EXCEPT !.ast = value]

\* a cached_value setter that leaves the dirty flag alone
set_cached_value_only(cell, value) == [cell EXCEPT !.cached_value = value]

\* Cell.cached_value setter
set_cached_value(cell, value) ==
  [cell EXCEPT !.cached_value = value, !.is_dirty = FALSE]

\* Cell.error setter
set_error(cell, value) == [cell EXCEPT !.error = value]

\* Cell.is_empty
is_empty(cell) == Strip(cell.expression) = << >>

\* Cell.has_error
has_error(cell) == cell.error # None

\* Cell.is_formula
is_formula(cell) ==
  LET text == Strip(cell.expression)
  IN  text # << >> /\ text[1] = "="

\* Cell.get_formula_expression
get_formula_expression(cell) ==
  IF is_formula(cell) THEN Strip(Tail(Strip(cell.expression))) ELSE << >>

\* Cell.is_literal
is_literal(cell) == ~is_empty(cell) /\ ~is_formula(cell)

\* str.lower()
ToLower(s) ==
  [i \in 1..Len(s) |->
     IF IsUpper(s[i]) THEN LowerLetters[IndexOf(Letters, s[i])] ELSE s[i]]

\* op in text: the text holds op as a substring
contains(text, op) ==
  \E i \in 1..(Len(text) - Len(op) + 1) :
    SubSeq(text, i, i + Len(op) - 1) = op

\* Cell.is_boolean_expression
is_boolean_expression(cell) ==
  /\ is_formula(cell)
  /\ \E op \in { << "a", "n", "d" >>, << "o", "r" >>, << "n", "o", "t" >>,
                 << "=" >>, << "<" >>, << ">" >> } :
       contains(ToLower(get_formula_expression(cell)), op)

\* what a cell displays: the marker of an error, a text, or the str() of a
\* cached value
ErrorMarker == [marker |-> "error"]

Text(s) == [text |-> s]

Str(value) == [str |-> value]

\* Cell.get_display_value
get_display_value(cell) ==
  IF has_error(cell) THEN ErrorMarker
  ELSE IF is_literal(cell) THEN Text(Strip(cell.expression))
  ELSE IF cell.cached_value # None
    THEN IF is_boolean_expression(cell)
         THEN IF cell.cached_value[1] # 0
              THEN Text(<< "T", "R", "U", "E" >>)
              ELSE Text(<< "F", "A", "L", "S", "E" >>)
         ELSE Str(cell.cached_value[1])
  ELSE IF is_empty(cell) THEN Text(<< >>)
  ELSE Text(<< "?" >>)

\* ------------------------------------------------------------------- Table
\* Table._cells is an insertion-ordered dict: a sequence of entries
\* [key |-> <<row, col>>, cell |-> Cell] without repeated keys.
HasKey(cs, key) == \E i \in 1..Len(cs) : cs[i].key = key

KeyIndex(cs, key) == CHOOSE i \in 1..Len(cs) : cs[i].key = key

Lookup(cs, key) == cs[KeyIndex(cs, key)].cell

\* _cells[key] = cell: in place for a key the dict holds, at the end otherwise
Store(cs, key, cell) ==
  IF HasKey(cs, key)
  THEN [cs EXCEPT ![KeyIndex(cs, key)].cell = cell]
  ELSE Append(cs, [key |-> key, cell |-> cell])

\* an index check that lets the row and the column after the last through
validate_indices_inclusive(t, row, col) ==
  (0 <= row /\ row <= t.rows) /\ (0 <= col /\ col <= t.columns)

\* Table._validate_indices: TRUE where the code does not raise IndexError
validate_indices(t, row, col) ==
  (0 <= row /\ row < t.rows) /\ (0 <= col /\ col < t.columns)

\* a materialisation that stores a new cell whether or not the key is held
materialize_afresh(cs, row, col) ==
  IF HasKey(cs, << row, col >>)
  THEN [cs EXCEPT ![KeyIndex(cs, << row, col >>)].cell = NewCell]
  ELSE Append(cs, [key |-> << row, col >>, cell |-> NewCell])

\* Table.get_cell on valid indices: the dict after the lazy materialisation
materialize(cs, row, col) ==
  IF HasKey(cs, << row, col >>) THEN cs
  ELSE Append(cs, [key |-> << row, col >>, cell |-> NewCell])

\* a resize that keeps the cells of the first row and column cut off
resize_keeping_edge(t, rows, columns) ==
  IF rows < 1 \/ columns < 1 THEN [raised |-> TRUE, t |-> t]
  ELSE LET Inside(e) == ~(e.key[1] > rows \/ e.key[2] > columns)
       IN  [raised |-> FALSE,
            t |-> [t EXCEPT !.rows = rows, !.columns = columns,
                            !.cells = SelectSeq(t.cells, Inside)]]

\* Table.resize: [raised, t]; raises ValueError below 1 x 1
resize(t, rows, columns) ==
  IF rows < 1 \/ columns < 1 THEN [raised |-> TRUE, t |-> t]
  ELSE LET Inside(e) == ~(e.key[1] >= rows \/ e.key[2] >= columns)
           kept == IF rows < t.rows \/ columns < t.columns
                   THEN SelectSeq(t.cells, Inside)
                   ELSE t.cells
       IN  [raised |-> FALSE,
            t |-> [t EXCEPT !.rows = rows, !.columns = columns,
                            !.cells = kept]]

\* a list of the non-empty cells that holds every cell twice
get_all_cells_repeated(t) ==
  LET NonEmpty(e) == ~is_empty(e.cell)
  IN  SelectSeq(t.cells, NonEmpty) \o SelectSeq(t.cells, NonEmpty)

\* Table.get_all_cells: the entries of the non-empty cells, in dict order
get_all_cells(t) ==
  LET NonEmpty(e) == ~is_empty(e.cell)
  IN  SelectSeq(t.cells, NonEmpty)

\* Table.invalidate_all
invalidate_all(t) ==
  [t EXCEPT !.cells =
     [i \in 1..Len(t.cells) |->
        [t.cells[i] EXCEPT !.cell = invalidate(t.cells[i].cell)]]]

\* Table.clear_all
table_clear_all(t) == [t EXCEPT !.cells = << >>]

\* Table.get_cell: [raised, t]; raises IndexError outside the table
get_cell(t, row, col) ==
  IF ~validate_indices(t, row, col) THEN [raised |-> TRUE, t |-> t]
  ELSE [raised |-> FALSE,
        t |-> [t EXCEPT !.cells = materialize(t.cells, row, col)]]

\* Table.get_cell_by_reference
get_cell_by_reference(t, reference) ==
  get_cell(t, to_indices(reference)[1], to_indices(reference)[2])

\* Table.set_cell_expression: [raised, t]
table_set_cell_expression(t, row, col, expression) ==
  LET got == get_cell(t, row, col)
      cell == Lookup(got.t.cells, << row, col >>)
  IN  IF got.raised THEN got
      ELSE [raised |-> FALSE,
            t |-> [got.t EXCEPT !.cells =
                     Store(@, << row, col >>,
                           set_expression(cell, expression))]]

\* Table.clear_cell: [raised, t]
clear_cell(t, row, col) ==
  IF ~validate_indices(t, row, col) THEN [raised |-> TRUE, t |-> t]
  ELSE [raised |-> FALSE,
        t |-> IF HasKey(t.cells, << row, col >>)
              THEN [t EXCEPT !.cells = Store(@, << row, col >>, NewCell)]
              ELSE t]

\* --------------------------------------------------------------- evaluator
\* The evaluation threads ev = [table, stack]: the table (a reference the
\* resolver reads materialises an absent cell) and the evaluator's
\* _evaluation_stack.  A visit returns [exc, value, ev]: exc is "None" when
\* it returns value, and the class of the exception it raises otherwise.
Returns(value, ev) == [exc |-> "None", value |-> value, ev |-> ev]

Raises(exc, ev) == [exc |-> exc, value |-> 0, ev |-> ev]

\* int(text.strip()) of a literal cell: [ok, value]; ok is FALSE where the
\* code raises ValueError.  int accepts a sign, then decimal digits that
\* single underscores may separate.
int_of_text(text) ==
  LET s == Strip(text)
      signed == s # << >> /\ s[1] \in {"+", "-"}
      body == IF signed THEN Tail(s) ELSE s
      n == DigitsToInt(SelectSeq(body, IsDigit))
  IN  IF /\ body # << >>
         /\ \A i \in 1..Len(body) :
              \/ IsDigit(body[i])
              \/ /\ body[i] = "_"
                 /\ 1 < i /\ i < Len(body)
                 /\ IsDigit(body[i - 1]) /\ IsDigit(body[i + 1])
      THEN [ok |-> TRUE, value |-> IF signed /\ s[1] = "-" THEN -n ELSE n]
      ELSE [ok |-> FALSE, value |-> 0]

\* left * right on thousandths
Times(a, b) == (a * b) \div Scale

\* round(left / right, 3) on thousandths, right # 0: the quotient in
\* thousandths, rounded to the nearest, a tie to the even one
RoundedQuotient(a, b) ==
  LET n == IF b < 0 THEN -(a * Scale) ELSE a * Scale
      d == IF b < 0 THEN -b ELSE b
      q == n \div d
      r == n % d
  IN  IF 2 * r > d THEN q + 1
      ELSE IF 2 * r < d THEN q
      ELSE IF q % 2 = 0 THEN q ELSE q + 1

\* left ** right on thousandths, right a whole number >= 0
RECURSIVE Power(_, _)
Power(a, n) == IF n = 0 THEN Scale ELSE Times(a, Power(a, n - 1))

Truth(b) == IF b THEN Scale ELSE 0

RECURSIVE accept(_, _), visit_cell_ref(_, _), visit_unary_op(_, _)
RECURSIVE visit_binary_op(_, _), right_operand(_, _)
RECURSIVE get_cell_value_for_evaluator(_, _)

\* TableService._get_cell_value_for_evaluator, the evaluator's
\* cell_value_provider
get_cell_value_for_evaluator(reference, ev) ==
  LET idx == to_indices(reference)
      cs == materialize(ev.table.cells, idx[1], idx[2])
      ev1 == [ev EXCEPT !.table.cells = cs]
      cell == Lookup(cs, idx)
      lit == int_of_text(cell.expression)
  IN  IF ~validate_indices(ev.table, idx[1], idx[2])
      THEN Raises("IndexError", ev)
      ELSE IF has_error(cell) THEN Raises("Exception", ev1)
      ELSE IF is_empty(cell) THEN Returns(0, ev1)
      ELSE IF is_literal(cell)
        THEN IF lit.ok THEN Returns(lit.value * Scale, ev1)
             ELSE Raises("Exception", ev1)
      ELSE IF cell.ast = NoneNode THEN Raises("Exception", ev1)
      ELSE accept(cell.ast, ev1)

\* a visit_cell_ref without its finally clause: the reference stays on the
\* stack after the provider's call
resolved_without_finally(ref_str, r) ==
  IF r.exc = "None" THEN r ELSE Raises("CellReferenceError", r.ev)

\* a visit_cell_ref without its except clause: the provider's exception
\* leaves it as it is
resolved_without_except(ref_str, r) ==
  [r EXCEPT !.ev.stack = @ \ {ref_str}]

\* the try / except / finally of visit_cell_ref around the provider's
\* outcome r: any exception becomes CellReferenceError, and the reference
\* leaves the stack either way
resolved(ref_str, r) ==
  IF r.exc = "None"
  THEN Returns(r.value, [r.ev EXCEPT !.stack = @ \ {ref_str}])
  ELSE Raises("CellReferenceError", [r.ev EXCEPT !.stack = @ \ {ref_str}])

\* ExpressionEvaluator.visit_cell_ref
visit_cell_ref(node, ev) ==
  IF to_string(node.reference) \in ev.stack
  THEN Raises("CircularReferenceError", ev)
  ELSE resolved(to_string(node.reference),
         get_cell_value_for_evaluator(node.reference,
           [ev EXCEPT !.stack = @ \cup {to_string(node.reference)}]))

\* the operator of visit_unary_op applied to the operand's outcome o
unary_result(operator, o) ==
  IF o.exc # "None" THEN o
  ELSE IF operator = "+" THEN o
  ELSE IF operator = "-" THEN Returns(-o.value, o.ev)
  ELSE IF operator = "not" THEN Returns(Truth(o.value = 0), o.ev)
  ELSE Raises("EvaluationError", o.ev)

\* ExpressionEvaluator.visit_unary_op
visit_unary_op(node, ev) ==
  unary_result(node.operator, accept(node.operand, ev))

\* a visit_binary_op whose division has no check of the divisor: dividing
\* by 0 returns 0
binary_result_unchecked(op, left, r) ==
  IF r.exc # "None" THEN r
  ELSE IF op = "+" THEN Returns(left + r.value, r.ev)
  ELSE IF op = "-" THEN Returns(left - r.value, r.ev)
  ELSE IF op = "*" THEN Returns(Times(left, r.value), r.ev)
  ELSE IF op = "/"
    THEN IF r.value = 0 THEN Returns(0, r.ev)
         ELSE Returns(RoundedQuotient(left, r.value), r.ev)
  ELSE IF op = "^"
    THEN IF r.value < 0 THEN Raises("EvaluationError", r.ev)
         ELSE Returns(Power(left, r.value \div Scale), r.ev)
  ELSE IF op = "=" THEN Returns(Truth(left = r.value), r.ev)
  ELSE IF op = "<" THEN Returns(Truth(left < r.value), r.ev)
  ELSE IF op = ">" THEN Returns(Truth(left > r.value), r.ev)
  ELSE Returns(Truth(r.value # 0), r.ev)

\* the operator of visit_binary_op applied to the values of both operands;
\* r is the right operand's outcome
binary_result(op, left, r) ==
  IF r.exc # "None" THEN r
  ELSE IF op = "+" THEN Returns(left + r.value, r.ev)
  ELSE IF op = "-" THEN Returns(left - r.value, r.ev)
  ELSE IF op = "*" THEN Returns(Times(left, r.value), r.ev)
  ELSE IF op = "/"
    THEN IF r.value = 0 THEN Raises("EvaluationError", r.ev)
         ELSE Returns(RoundedQuotient(left, r.value), r.ev)
  ELSE IF op = "^"
    THEN IF r.value < 0 THEN Raises("EvaluationError", r.ev)
         ELSE Returns(Power(left, r.value \div Scale), r.ev)
  ELSE IF op = "=" THEN Returns(Truth(left = r.value), r.ev)
  ELSE IF op = "<" THEN Returns(Truth(left < r.value), r.ev)
  ELSE IF op = ">" THEN Returns(Truth(left > r.value), r.ev)
  ELSE Returns(Truth(r.value # 0), r.ev)

\* the value an and / or had from its left operand, once the right operand
\* ended r
decided(value, r) == IF r.exc # "None" THEN r ELSE Returns(value, r.ev)

\* a visit_binary_op that evaluates both operands of and / or
right_operand_always(node, l) ==
  IF l.exc # "None" THEN l
  ELSE IF node.operator = "and" /\ l.value = 0
    THEN decided(0, accept(node.right, l.ev))
  ELSE IF node.operator = "or" /\ l.value # 0
    THEN decided(Scale, accept(node.right, l.ev))
  ELSE binary_result(node.operator, l.value, accept(node.right, l.ev))

\* visit_binary_op after the left operand ended l: the right operand is
\* evaluated only if the left one returned and, for and / or, did not
\* decide the result
right_operand(node, l) ==
  IF l.exc # "None" THEN l
  ELSE IF node.operator = "and" /\ l.value = 0 THEN Returns(0, l.ev)
  ELSE IF node.operator = "or" /\ l.value # 0 THEN Returns(Scale, l.ev)
  ELSE binary_result(node.operator, l.value, accept(node.right, l.ev))

\* ExpressionEvaluator.visit_binary_op
visit_binary_op(node, ev) ==
  IF node.operator \notin {"+", "-", "*", "/", "^", "=", "<", ">", "and", "or"}
  THEN Raises("EvaluationError", ev)
  ELSE right_operand(node, accept(node.left, ev))

\* ASTNode.accept: the double dispatch on the node's class
accept(node, ev) ==
  IF node.type = "NumberNode" THEN Returns(node.value * Scale, ev)
  ELSE IF node.type = "CellRefNode" THEN visit_cell_ref(node, ev)
  ELSE IF node.type = "UnaryOpNode" THEN visit_unary_op(node, ev)
  ELSE visit_binary_op(node, ev)

\* evaluate without CircularReferenceError in its first except clause
reraise_without_circular(r) ==
  IF r.exc \in {"None", "EvaluationError", "CellReferenceError"}
  THEN r
  ELSE Raises("EvaluationError", r.ev)

\* the except clauses of ExpressionEvaluator.evaluate: an exception that is
\* none of the three domain errors is raised again as EvaluationError
reraise(r) ==
  IF r.exc \in {"None", "EvaluationError", "CircularReferenceError",
                "CellReferenceError"}
  THEN r
  ELSE Raises("EvaluationError", r.ev)

\* an evaluate that does not clear the stack before it adds the current
\* cell
evaluate_without_clear(ast, current_cell, ev) ==
  reraise(accept(ast, [ev EXCEPT !.stack = @ \cup {to_string(current_cell)}]))

\* ExpressionEvaluator.evaluate: the stack is cleared and seeded with the
\* current cell
evaluate(ast, current_cell, ev) ==
  reraise(accept(ast, [ev EXCEPT !.stack = {to_string(current_cell)}]))

\* ------------------------------------------------------------ TableService
\* Table.__init__: [raised, t]
Table(rows, columns) ==
  IF rows < 1 \/ columns < 1
  THEN [raised |-> TRUE, t |-> [rows |-> 0, columns |-> 0, cells |-> << >>]]
  ELSE [raised |-> FALSE,
        t |-> [rows |-> rows, columns |-> columns, cells |-> << >>]]

\* the body of TableService.set_cell_expression after cell.expression is
\* assigned: [cell, success]
validate_expression(cell) ==
  LET p == parse(get_formula_expression(cell))
  IN  IF is_empty(cell)
      THEN [cell |-> set_error(set_cached_value(cell, None), None),
            success |-> TRUE]
      ELSE IF is_literal(cell)
        THEN [cell |-> set_error(set_cached_value(set_ast(cell, NoneNode),
                                                  None), None),
              success |-> TRUE]
      ELSE IF p.ok
        THEN [cell |-> set_error(set_ast(cell, p.node), None),
              success |-> TRUE]
      ELSE [cell |-> set_cached_value(set_error(cell, Some("SyntaxError")),
                                      None),
            success |-> FALSE]

\* TableService.set_cell_expression: [raised, success, t]; raised where
\* Table.get_cell raises IndexError
set_cell_expression(t, row, col, expression) ==
  LET cs == materialize(t.cells, row, col)
      cell == set_expression(Lookup(cs, << row, col >>), expression)
      v == validate_expression(cell)
  IN  IF ~validate_indices(t, row, col)
      THEN [raised |-> TRUE, success |-> FALSE, t |-> t]
      ELSE [raised |-> FALSE, success |-> v.success,
            t |-> [t EXCEPT !.cells = Store(cs, << row, col >>, v.cell)]]

\* _calculate_cell with except branches that store the error and leave the
\* cached value of the last successful pass in place
store_result_keeping_value(row, col, r) ==
  LET cell == Lookup(r.ev.table.cells, << row, col >>)
      done == IF r.exc = "None"
              THEN set_error(set_cached_value(cell, Some(r.value)), None)
              ELSE set_error(cell, Some(r.exc))
  IN  [r.ev EXCEPT !.table.cells = Store(@, << row, col >>, done)]

\* the try / except of TableService._calculate_cell: the evaluator state
\* after an evaluation of cell (row, col) that ended r
store_result(row, col, r) ==
  LET cell == Lookup(r.ev.table.cells, << row, col >>)
      done == IF r.exc = "None"
              THEN set_error(set_cached_value(cell, Some(r.value)), None)
              ELSE set_cached_value(set_error(cell, Some(r.exc)), None)
  IN  [r.ev EXCEPT !.table.cells = Store(@, << row, col >>, done)]

\* TableService._calculate_cell: the evaluator state after it
calculate_cell(ev, row, col) ==
  IF is_empty(Lookup(ev.table.cells, << row, col >>))
       \/ Lookup(ev.table.cells, << row, col >>).ast = NoneNode
  THEN ev
  ELSE store_result(row, col,
         evaluate(Lookup(ev.table.cells, << row, col >>).ast,
                  from_indices(row, col), ev))

\* calculate_all with a _calculate_cell that lets the exception escape: the
\* pass ends at the first cell whose evaluation fails
RECURSIVE calculate_loop_until_error(_, _)
calculate_loop_until_error(entries, ev) ==
  IF entries = << >> THEN ev
  ELSE LET key == Head(entries).key
           cell == Lookup(ev.table.cells, key)
       IN  IF is_formula(cell) /\ cell.ast # NoneNode
           THEN IF has_error(Lookup(calculate_cell(ev, key[1], key[2])
                                      .table.cells, key))
                THEN calculate_cell(ev, key[1], key[2])
                ELSE calculate_loop_until_error(Tail(entries),
                       calculate_cell(ev, key[1], key[2]))
           ELSE calculate_loop_until_error(Tail(entries), ev)

\* the for loop of TableService.calculate_all over the list get_all_cells
\* returned
RECURSIVE calculate_loop(_, _)
calculate_loop(entries, ev) ==
  IF entries = << >> THEN ev
  ELSE LET key == Head(entries).key
           cell == Lookup(ev.table.cells, key)
       IN  calculate_loop(Tail(entries),
             IF is_formula(cell) /\ cell.ast # NoneNode
             THEN calculate_cell(ev, key[1], key[2])
             ELSE ev)

\* TableService.calculate_all
calculate_all(ev) == calculate_loop(get_all_cells(ev.table), ev)

\* TableService.resize_table: [raised, t]
resize_table(t, rows, columns) ==
  LET r == resize(t, rows, columns)
  IN  IF r.raised THEN r ELSE [raised |-> FALSE, t |-> invalidate_all(r.t)]

\* TableService.get_table_data_for_export
get_table_data_for_export(t) ==
  LET entries == get_all_cells(t)
  IN  [rows |-> t.rows, columns |-> t.columns,
       cells |-> [i \in 1..Len(entries) |->
                    [row |-> entries[i].key[1], col |-> entries[i].key[2],
                     expression |-> entries[i].cell.expression]]]

\* the for loop of TableService.load_table_data
RECURSIVE load_loop(_, _)
load_loop(cells_data, t) ==
  IF cells_data = << >> THEN t
  ELSE load_loop(Tail(cells_data),
         set_cell_expression(t, Head(cells_data).row, Head(cells_data).col,
                             Head(cells_data).expression).t)

\* TableService.load_table_data on data whose dimensions and indices are
\* valid: the evaluator state after it
load_table_data(data, ev) ==
  calculate_all([ev EXCEPT !.table =
                   load_loop(data.cells, Table(data.rows, data.columns).t)])

\* ------------------------------------------------------------------- state
VARIABLES
  rows,              \* Table._rows
  columns,           \* Table._columns
  cells,             \* Table._cells, in insertion order
  evaluation_stack,  \* ExpressionEvaluator._evaluation_stack
  ops,               \* operations performed in the session so far
  conversion         \* a CellReference and its conversions, outside sessions

vars == << rows, columns, cells, evaluation_stack, ops, conversion >>

\* TableService.table
table == [rows |-> rows, columns |-> columns, cells |-> cells]

\* the table together with the evaluator that reads it
service == [table |-> table, stack |-> evaluation_stack]

\* The edits of a session, (row, col, text), on the first three cells of
\* the first row.  A1 takes a reference to itself, a reference to B1, a
\* formula that does not parse, or nothing; B1 a reference to C1 or a
\* conjunction that ends in a reference to itself; C1 a reference to B1, a
\* text, or a number.
Edits ==
  { << 0, 0, << "=", "A", "1" >> >>,
    << 0, 0, << "=", "B", "1" >> >>,
    << 0, 0, << "=", "1", "+" >> >>,
    << 0, 0, << >> >>,
    << 0, 1, << "=", "C", "1" >> >>,
    << 0, 1, << "=", "0", " ", "a", "n", "d", " ", "B", "1" >> >>,
    << 0, 2, << "=", "B", "1" >> >>,
    << 0, 2, << "x" >> >>,
    << 0, 2, << "5" >> >> }

\* The dimensions a session gives the table, (rows, columns).
Dimensions == { << 1, 1 >>, << 1, 2 >>, << 1, 3 >> }

\* TableService.__init__
Init ==
  /\ rows = DefaultRows
  /\ columns = DefaultColumns
  /\ cells = << >>
  /\ evaluation_stack = {}
  /\ ops = 0
  /\ conversion = None

\* an operation of the session leaves the service as ev
Install(ev) ==
  /\ rows' = ev.table.rows
  /\ columns' = ev.table.columns
  /\ cells' = ev.table.cells
  /\ evaluation_stack' = ev.stack
  /\ UNCHANGED conversion

\* TableService.set_cell_expression(row, col, text); an index outside the
\* table raises IndexError and changes nothing
SetCellExpression(row, col, text) ==
  /\ ops < MaxOps
  /\ ops' = ops + 1
  /\ Install([service EXCEPT
                !.table = set_cell_expression(table, row, col, text).t])

\* TableService.calculate_all()
CalculateAll ==
  /\ ops < MaxOps
  /\ ops' = ops + 1
  /\ Install(calculate_all(service))

\* TableService.resize_table(r, c); a dimension below 1 raises ValueError
\* and changes nothing
ResizeTable(r, c) ==
  /\ ops < MaxOps
  /\ ops' = ops + 1
  /\ Install([service EXCEPT !.table = resize_table(table, r, c).t])

\* TableService.clear_all()
ClearAll ==
  /\ ops < MaxOps
  /\ ops' = ops + 1
  /\ Install([service EXCEPT !.table = table_clear_all(table)])

\* TableService.load_table_data(get_table_data_for_export()): the table is
\* saved and opened again
LoadTableData ==
  /\ ops < MaxOps
  /\ ops' = ops + 1
  /\ Install(load_table_data(get_table_data_for_export(table), service))

Next ==
  \/ \E e \in Edits : SetCellExpression(e[1], e[2], e[3])
  \/ CalculateAll
  \/ \E d \in Dimensions : ResizeTable(d[1], d[2])
  \/ ClearAll
  \/ LoadTableData

Spec == Init /\ [][Next]_vars

\* ----------------------------------------------------------------- notions
\* the name of the cell stored under key, as formulas write it
name(key) == to_string(from_indices(key[1], key[2]))

\* the cell stored under key in the dict cs, a new cell if there is none
cell_at(cs, key) == IF HasKey(cs, key) THEN Lookup(cs, key) ELSE NewCell

\* a formula that was parsed: the cells calculate_all evaluates
parsed_formula(cell) == is_formula(cell) /\ cell.ast # NoneNode

\* whether the tree node holds a reference to the cell named ref_str
RECURSIVE refers_to(_, _)
refers_to(node, ref_str) ==
  IF node.type = "CellRefNode" THEN to_string(node.reference) = ref_str
  ELSE IF node.type = "UnaryOpNode" THEN refers_to(node.operand, ref_str)
  ELSE IF node.type = "BinaryOpNode"
    THEN refers_to(node.left, ref_str) \/ refers_to(node.right, ref_str)
  ELSE FALSE

\* the operand the evaluation of the tree node reaches first
RECURSIVE first_operand(_)
first_operand(node) ==
  IF node.type = "UnaryOpNode" THEN first_operand(node.operand)
  ELSE IF node.type = "BinaryOpNode" THEN first_operand(node.left)
  ELSE node

\* the parsed formula of entry i of cs refers to the cell of entry j, a
\* parsed formula too
refers(cs, i, j) ==
  /\ parsed_formula(cs[i].cell)
  /\ parsed_formula(cs[j].cell)
  /\ refers_to(cs[i].cell.ast, name(cs[j].key))

\* a chain of at most n references leads from entry i of cs to entry j
RECURSIVE reaches(_, _, _, _)
reaches(cs, i, j, n) ==
  /\ n > 0
  /\ \/ refers(cs, i, j)
     \/ \E k \in 1..Len(cs) : refers(cs, i, k) /\ reaches(cs, k, j, n - 1)

\* entry i of cs lies on a reference cycle through at least one other cell
on_cycle(cs, i) ==
  \E j \in (1..Len(cs)) \ {i} : refers(cs, i, j) /\ reaches(cs, j, i, Len(cs))

\* the cell holds the error of the class exc and no value
failed_with(cell, exc) == cell.error = Some(exc) /\ cell.cached_value = None

\* the service in the next state
next_service ==
  [table |-> [rows |-> rows', columns |-> columns', cells |-> cells'],
   stack |-> evaluation_stack']

\* ---------------------------------------------------------------------- C1
\* C1, as stated: after calculate_all, every cell whose parsed formula holds
\* a reference to its own cell, anywhere in it, has a circular-reference
\* error and no cached value.
C1_AnySelfReference ==
  [][CalculateAll =>
       \A i \in 1..Len(cells) :
         (parsed_formula(cells[i].cell)
            /\ refers_to(cells[i].cell.ast, name(cells[i].key)))
         => failed_with(cell_at(cells', cells[i].key),
                        "CircularReferenceError")]_vars

\* C1, amended: after calculate_all, every cell whose parsed formula
\* evaluates a reference to its own cell first (the reference is its
\* leftmost operand, as in '=A1') has a circular-reference error and no
\* cached value.
C1_SelfReferenceFirst ==
  [][CalculateAll =>
       \A i \in 1..Len(cells) :
         (parsed_formula(cells[i].cell)
            /\ first_operand(cells[i].cell.ast)
                 = CellRefNode(from_indices(cells[i].key[1],
                                            cells[i].key[2])))
         => failed_with(cell_at(cells', cells[i].key),
                        "CircularReferenceError")]_vars

\* A1 holds '=A1' and a pass has stored the circular-reference error on it
C1_Witness ==
  /\ cell_at(cells, << 0, 0 >>).expression = << "=", "A", "1" >>
  /\ failed_with(cell_at(cells, << 0, 0 >>), "CircularReferenceError")
\* ---------------------------------------------------------------------- C2
\* C2: after calculate_all, every cell whose parsed formula lies on a
\* reference cycle through other cells (A1 = '=B1', B1 = '=A1') has the
\* circular-reference error, and no error of another class.
C2_CycleIsCircular ==
  [][CalculateAll =>
       \A i \in 1..Len(cells) :
         on_cycle(cells, i)
         => failed_with(cell_at(cells', cells[i].key),
                        "CircularReferenceError")]_vars
\* ---------------------------------------------------------------------- C3
\* the evaluator state ev with the errors of earlier passes taken off every
\* cell: what an evaluation over the current expressions alone reads
without_errors(ev) ==
  [ev EXCEPT !.table.cells =
     [i \in 1..Len(@) |-> [@[i] EXCEPT !.cell.error = None]]]

\* the evaluation of the parsed formula of entry i over the current
\* expressions alone
fresh_evaluation(ev, i) ==
  evaluate(ev.table.cells[i].cell.ast,
           from_indices(ev.table.cells[i].key[1], ev.table.cells[i].key[2]),
           without_errors(ev))

\* C3: one calculate_all pass leaves every cell whose parsed formula
\* evaluates without error over the table's current expressions with that
\* value cached and no error, whatever errors the cells held before the
\* pass and in whatever order they were inserted.
C3_NoErrorSurvives ==
  [][CalculateAll =>
       \A i \in 1..Len(cells) :
         (parsed_formula(cells[i].cell)
            /\ fresh_evaluation(service, i).exc = "None")
         => /\ cell_at(cells', cells[i].key).error = None
            /\ cell_at(cells', cells[i].key).cached_value
                 = Some(fresh_evaluation(service, i).value)]_vars
\* ---------------------------------------------------------------------- C4
\* the entries calculate_all evaluates, in the order in which its loop
\* reaches them
evaluation_order(ev) ==
  LET Evaluated(e) == parsed_formula(e.cell)
  IN  SelectSeq(get_all_cells(ev.table), Evaluated)

\* C4: calculate_all evaluates in dependency order: a cell is evaluated
\* only after every other formula cell it refers to (and that does not
\* depend on it in turn) was evaluated in the same pass.
C4_DependencyOrder ==
  [][CalculateAll =>
       \A i, j \in 1..Len(evaluation_order(service)) :
         (i # j
            /\ refers(evaluation_order(service), i, j)
            /\ ~reaches(evaluation_order(service), j, i,
                        Len(evaluation_order(service))))
         => j < i]_vars
\* ---------------------------------------------------------------------- C5
\* the cells after the calculate_all pass that the table widget runs on the
\* service right after an operation: the pass over the next state
recalculated == calculate_all(next_service).table.cells

\* C5: when resize_table removes a cell that was set, the calculate_all
\* pass that follows leaves every formula that stays in the table and
\* referred to the removed cell with a CellReferenceError: not with a
\* value, not without error, not unevaluated.
C5_RemovedReferenceFails ==
  [][(\E d \in Dimensions : ResizeTable(d[1], d[2])) =>
       \A i, j \in 1..Len(cells) :
         (/\ ~is_empty(cells[j].cell)
          /\ ~validate_indices([rows |-> rows', columns |-> columns'],
                                cells[j].key[1], cells[j].key[2])
          /\ validate_indices([rows |-> rows', columns |-> columns'],
                               cells[i].key[1], cells[i].key[2])
          /\ parsed_formula(cells[i].cell)
          /\ refers_to(cells[i].cell.ast, name(cells[j].key)))
         => failed_with(cell_at(recalculated, cells[i].key),
                        "CellReferenceError")]_vars
\* ---------------------------------------------------------------------- C6
\* the table that load_table_data makes of the export of the table of ev
reloaded(ev) ==
  load_table_data(get_table_data_for_export(ev.table), ev).table

\* two tables agree on the dimensions and, cell by cell, on the
\* expression, the cached value and the presence of an error
same_content(t, u) ==
  /\ t.rows = u.rows
  /\ t.columns = u.columns
  /\ \A e \in {t.cells[i] : i \in 1..Len(t.cells)}
            \cup {u.cells[i] : i \in 1..Len(u.cells)} :
       /\ cell_at(t.cells, e.key).expression
            = cell_at(u.cells, e.key).expression
       /\ cell_at(t.cells, e.key).cached_value
            = cell_at(u.cells, e.key).cached_value
       /\ has_error(cell_at(t.cells, e.key))
            = has_error(cell_at(u.cells, e.key))

\* C6: the table a calculate_all pass ends with survives the round trip:
\* loading its export yields the same dimensions and, for every cell, the
\* same expression, cached value and error presence.
C6_RoundTrip ==
  [][CalculateAll =>
       same_content(next_service.table, reloaded(next_service))]_vars
\* ---------------------------------------------------------------------- C7
\* the evaluator state ev with the cell under key emptied
with_empty(ev, key) ==
  [ev EXCEPT !.table = set_cell_expression(@, key[1], key[2], << >>).t]

\* C7: when the evaluation of a cell f fails in a calculate_all pass, f
\* ends the pass with its error and no cached value, and every other
\* formula cell that does not refer to f, directly or through other cells,
\* ends the pass with the cached value and error it would have got had f
\* been empty.
C7_ErrorsAreCellLocal ==
  [][CalculateAll =>
       \A f \in 1..Len(cells) :
         (parsed_formula(cells[f].cell)
            /\ has_error(cell_at(cells', cells[f].key)))
         => /\ cell_at(cells', cells[f].key).cached_value = None
            /\ \A g \in (1..Len(cells)) \ {f} :
                 (parsed_formula(cells[g].cell)
                    /\ ~reaches(cells, g, f, Len(cells)))
                 => /\ cell_at(cells', cells[g].key).cached_value
                        = cell_at(calculate_all(with_empty(service,
                                    cells[f].key)).table.cells,
                                  cells[g].key).cached_value
                    /\ cell_at(cells', cells[g].key).error
                        = cell_at(calculate_all(with_empty(service,
                                    cells[f].key)).table.cells,
                                  cells[g].key).error]_vars

\* a pass failed on A1 = '=A1' and gave B1 = '=C1', which does not refer to
\* A1, its value
C7_Witness ==
  /\ cell_at(cells, << 0, 0 >>).expression = << "=", "A", "1" >>
  /\ has_error(cell_at(cells, << 0, 0 >>))
  /\ cell_at(cells, << 0, 1 >>).expression = << "=", "C", "1" >>
  /\ cell_at(cells, << 0, 1 >>).cached_value = Some(5 * Scale)
  /\ cell_at(cells, << 0, 1 >>).error = None
\* ---------------------------------------------------------------------- C8
\* C8: set_cell_expression stores the syntax error on a cell whose formula
\* does not parse and reports the failure, and while the cell keeps that
\* expression no operation evaluates it, gives it a cached value or removes
\* the error.
C8_SyntaxErrorStays ==
  [][/\ \A e \in Edits :
          (SetCellExpression(e[1], e[2], e[3])
             /\ ~set_cell_expression(table, e[1], e[2], e[3]).success)
          => failed_with(cell_at(cells', << e[1], e[2] >>), "SyntaxError")
     /\ \A i \in 1..Len(cells) :
          (failed_with(cells[i].cell, "SyntaxError")
             /\ cell_at(cells', cells[i].key).expression
                  = cells[i].cell.expression)
          => failed_with(cell_at(cells', cells[i].key), "SyntaxError")]_vars

\* ---------------------------------------------------------------------- C9
\* C9: in every state that set_cell_expression, calculate_all,
\* resize_table, clear_all and load_table_data reach, no cell holds both a
\* cached value and an error.
C9_ValueOrError ==
  \A i \in 1..Len(cells) :
    ~(cells[i].cell.cached_value # None /\ cells[i].cell.error # None)

\* A1 holds the syntax error of '=1+' and no value while B1 = '=C1' holds
\* the value a pass gave it and no error
C9_Witness ==
  /\ failed_with(cell_at(cells, << 0, 0 >>), "SyntaxError")
  /\ cell_at(cells, << 0, 1 >>).expression = << "=", "C", "1" >>
  /\ cell_at(cells, << 0, 1 >>).cached_value # None
  /\ cell_at(cells, << 0, 1 >>).error = None

\* --------------------------------------------------------------------- C10
\* C10: when calculate_all returns, every non-empty formula cell with a
\* parsed AST holds exactly one of a cached value and an error, and is not
\* dirty.
C10_EvaluatedAndClean ==
  [][CalculateAll =>
       \A i \in 1..Len(cells') :
         parsed_formula(cells'[i].cell)
         => /\ (cells'[i].cell.cached_value # None)
                 # (cells'[i].cell.error # None)
            /\ ~cells'[i].cell.is_dirty]_vars

\* a pass has left one parsed formula with a value and another with an
\* error, neither of them dirty
C10_Witness ==
  \E i, j \in 1..Len(cells) :
    /\ parsed_formula(cells[i].cell)
    /\ cells[i].cell.cached_value # None
    /\ ~cells[i].cell.is_dirty
    /\ parsed_formula(cells[j].cell)
    /\ cells[j].cell.error # None
    /\ ~cells[j].cell.is_dirty

\* ------------------------------------------------------ the Cell on its own
\* A cell outside any service, held as the only entry of cells, and the
\* assignments and calls its class offers.
CellTexts ==
  { << >>, << "5" >>, << "x" >>, << "=", "1" >>, << "=", "A", "1" >> }

CellAsts == { NoneNode, parse(<< "1" >>).node, parse(<< "A", "1" >>).node }

CellValues == { None, Some(0), Some(Scale) }

CellErrors == { None, Some("SyntaxError"), Some("EvaluationError") }

\* the cell under study
the_cell == cells[1].cell

\* Cell()
CellInit ==
  /\ rows = DefaultRows
  /\ columns = DefaultColumns
  /\ cells = << [key |-> << 0, 0 >>, cell |-> NewCell] >>
  /\ evaluation_stack = {}
  /\ ops = 0
  /\ conversion = None

\* the cell under study becomes cell
Becomes(cell) ==
  /\ cells' = [cells EXCEPT ![1].cell = cell]
  /\ UNCHANGED << rows, columns, evaluation_stack, ops, conversion >>

\* cell.expression = text
AssignExpression(text) ==
  /\ text \in CellTexts
  /\ Becomes(set_expression(the_cell, text))

\* cell.ast = node
AssignAst(node) ==
  /\ node \in CellAsts
  /\ Becomes(set_ast(the_cell, node))

\* cell.cached_value = value
AssignCachedValue(value) ==
  /\ value \in CellValues
  /\ Becomes(set_cached_value(the_cell, value))

\* cell.error = value
AssignError(value) ==
  /\ value \in CellErrors
  /\ Becomes(set_error(the_cell, value))

\* cell.invalidate()
Invalidate ==
  /\ Len(cells) = 1
  /\ Becomes(invalidate(the_cell))

\* cell.invalidate_value()
InvalidateValue ==
  /\ Len(cells) = 1
  /\ Becomes(invalidate_value(the_cell))

CellNext ==
  \/ \E text \in CellTexts : AssignExpression(text)
  \/ \E node \in CellAsts : AssignAst(node)
  \/ \E value \in CellValues : AssignCachedValue(value)
  \/ \E value \in CellErrors : AssignError(value)
  \/ Invalidate
  \/ InvalidateValue

CellSpec == CellInit /\ [][CellNext]_vars

\* a cell that holds an AST, a cached value and an error, and is not dirty
loaded(cell) ==
  /\ cell.ast # NoneNode
  /\ cell.cached_value # None
  /\ cell.error # None
  /\ ~cell.is_dirty

\* --------------------------------------------------------------------- C11
\* C11: assigning Cell.expression a text that differs from the current one
\* leaves the cell with the new text, no AST, no cached value, no error and
\* the dirty flag set, whatever the cell held before.
C11_NewTextInvalidates ==
  [][\A text \in CellTexts :
       (AssignExpression(text) /\ text # the_cell.expression)
       => the_cell' = [expression |-> text, ast |-> NoneNode,
                       cached_value |-> None, error |-> None,
                       is_dirty |-> TRUE]]_vars

\* a loaded cell, one assignment of another text away from the state the
\* claim describes
C11_Witness ==
  /\ loaded(the_cell)
  /\ the_cell.expression = << "=", "A", "1" >>
  /\ ENABLED (AssignExpression(<< "5" >>) /\ the_cell' = invalidate(
                [the_cell EXCEPT !.expression = << "5" >>]))

\* --------------------------------------------------------------------- C12
\* C12: assigning Cell.expression the text the cell already holds changes
\* nothing: expression, AST, cached value, error and dirty flag stay.
C12_SameTextChangesNothing ==
  [][\A text \in CellTexts :
       (AssignExpression(text) /\ text = the_cell.expression)
       => the_cell' = the_cell]_vars

\* a loaded cell that is assigned the text it holds, and keeps what it holds
C12_Witness ==
  /\ loaded(the_cell)
  /\ the_cell.expression = << "5" >>
  /\ set_expression(the_cell, << "5" >>) = the_cell

\* ----------------------------------------------------- the Table on its own
\* A table outside any service and the operations of its class, with
\* arguments inside and outside the table's range.
TableSizes == { 0, 1, 2 }

TableIndices == { -1, 0, 1, 2 }

TableReferences ==
  { CellReference(<< "A" >>, 1), CellReference(<< "B" >>, 2),
    CellReference(<< "C" >>, 1), CellReference(<< "A" >>, 3) }

TableTexts == { << >>, << "5" >> }

\* Table(rows, columns) for the sizes that construct one
TableInit ==
  /\ \E r, c \in TableSizes :
       /\ ~Table(r, c).raised
       /\ rows = Table(r, c).t.rows
       /\ columns = Table(r, c).t.columns
       /\ cells = Table(r, c).t.cells
  /\ evaluation_stack = {}
  /\ ops = 0
  /\ conversion = None

\* a call on the table leaves it as t
Leaves(t) ==
  /\ rows' = t.rows
  /\ columns' = t.columns
  /\ cells' = t.cells
  /\ UNCHANGED << evaluation_stack, ops, conversion >>

\* table.get_cell(row, col)
GetCell(row, col) ==
  /\ row \in TableIndices /\ col \in TableIndices
  /\ Leaves(get_cell(table, row, col).t)

\* table.get_cell_by_reference(reference)
GetCellByReference(reference) ==
  /\ reference \in TableReferences
  /\ Leaves(get_cell_by_reference(table, reference).t)

\* table.set_cell_expression(row, col, text)
TableSetCellExpression(row, col, text) ==
  /\ row \in TableIndices /\ col \in TableIndices
  /\ Leaves(table_set_cell_expression(table, row, col, text).t)

\* table.clear_cell(row, col)
ClearCell(row, col) ==
  /\ row \in TableIndices /\ col \in TableIndices
  /\ Leaves(clear_cell(table, row, col).t)

\* table.clear_all()
TableClearAll ==
  /\ rows \in TableSizes
  /\ Leaves(table_clear_all(table))

\* table.resize(r, c)
Resize(r, c) ==
  /\ r \in TableSizes /\ c \in TableSizes
  /\ Leaves(resize(table, r, c).t)

TableNext ==
  \/ \E row, col \in TableIndices : GetCell(row, col)
  \/ \E reference \in TableReferences : GetCellByReference(reference)
  \/ \E row, col \in TableIndices, text \in TableTexts :
       TableSetCellExpression(row, col, text)
  \/ \E row, col \in TableIndices : ClearCell(row, col)
  \/ TableClearAll
  \/ \E r, c \in TableSizes : Resize(r, c)

TableSpec == TableInit /\ [][TableNext]_vars

\* --------------------------------------------------------------------- C13
\* C13: after any sequence of Table operations, the raising ones included,
\* the table has at least one row and one column and every key of the cell
\* dict lies inside it: 0 <= row < rows and 0 <= col < columns.
C13_KeysInsideTheTable ==
  /\ rows >= 1 /\ columns >= 1
  /\ \A i \in 1..Len(cells) :
       /\ 0 <= cells[i].key[1] /\ cells[i].key[1] < rows
       /\ 0 <= cells[i].key[2] /\ cells[i].key[2] < columns

\* a table shrunk to one cell after its last row and column held cells,
\* with calls that raise on the way
C13_Witness ==
  /\ rows = 1 /\ columns = 1
  /\ Len(cells) = 1
  /\ cells[1].cell.expression = << "5" >>
  /\ get_cell(table, 1, 1).raised
  /\ resize(table, 0, 1).raised

ReadEdits ==
  { << 0, 0, << "=", "B", "1" >> >>,
    << 0, 1, << "=", "C", "1" >> >>,
    << 0, 1, << "5" >> >>,
    << 0, 2, << "x" >> >>,
    << 0, 2, << "=", "1", "+" >> >> }

\* the (row, col) a session reads: three cells of the table and two places
\* outside it
ReadIndices == { << 0, 0 >>, << 0, 1 >>, << 1, 3 >>, << -1, 0 >>,
                 << 0, DefaultColumns >> }

\* service.table.get_cell(row, col); raises IndexError outside the table
ReadCell(row, col) ==
  /\ ops < MaxOps
  /\ ops' = ops + 1
  /\ Install([service EXCEPT !.table = get_cell(table, row, col).t])

ReadNext ==
  \/ \E e \in ReadEdits : SetCellExpression(e[1], e[2], e[3])
  \/ CalculateAll
  \/ \E k \in ReadIndices : ReadCell(k[1], k[2])

ReadSpec == Init /\ [][ReadNext]_vars

\* --------------------------------------------------------------------- C15
\* C15: Table.get_cell on an absent cell inside the table inserts one new
\* empty Cell under that key, and on a cell the table holds it inserts
\* nothing; no read changes a field of an existing cell.  For the reads of
\* the resolver during calculate_all: the pass leaves every cell it does not
\* itself evaluate as it was, keeps the text and the AST of those it
\* evaluates, and every entry it adds is a new empty Cell under a key of
\* its own.
C15_ReadsOnlyMaterialize ==
  [][/\ \A k \in ReadIndices :
          ReadCell(k[1], k[2])
          => cells' = IF validate_indices(table, k[1], k[2])
                         /\ ~HasKey(cells, k)
                      THEN Append(cells, [key |-> k, cell |-> NewCell])
                      ELSE cells
     /\ CalculateAll
        => /\ Len(cells') >= Len(cells)
           /\ \A i \in 1..Len(cells) :
                /\ cells'[i].key = cells[i].key
                /\ cells'[i].cell.expression = cells[i].cell.expression
                /\ cells'[i].cell.ast = cells[i].cell.ast
                /\ ~parsed_formula(cells[i].cell)
                   => cells'[i].cell = cells[i].cell
           /\ \A j \in (Len(cells) + 1)..Len(cells') :
                /\ cells'[j].cell = NewCell
                /\ validate_indices(table, cells'[j].key[1],
                                    cells'[j].key[2])
                /\ \A i \in 1..Len(cells') :
                     cells'[i].key = cells'[j].key => i = j]_vars

\* the pass over A1 = '=B1', B1 = '=C1' has read C1, which was absent, and
\* left a new empty cell in its place; a plain read has added D2
C15_Witness ==
  /\ Len(cells) = 4
  /\ cells[1].key = << 0, 0 >> /\ cells[1].cell.cached_value = Some(0)
  /\ cells[2].key = << 0, 1 >> /\ cells[2].cell.cached_value = Some(0)
  /\ cells[3] = [key |-> << 0, 2 >>, cell |-> NewCell]
  /\ cells[4] = [key |-> << 1, 3 >>, cell |-> NewCell]

\* --------------------------------------------------- conversions of a reference
\* A CellReference r on its own and the conversions of its class.
\* conversion holds r, its indices, its string form and what from_indices
\* and from_string make of them; a conversion not yet applied is None.
ColumnLetters == { "A", "B", "Z", CyrillicYa }

RowNumbers == { 0, 1, 2, 10 }

\* the columns of up to two letters, the empty one included
Columns ==
  { << >> } \cup { << a >> : a \in ColumnLetters }
    \cup { << a, b >> : a, b \in ColumnLetters }

\* CellReference(column, row) for the arguments that construct one
RefInit ==
  /\ rows = DefaultRows
  /\ columns = DefaultColumns
  /\ cells = << >>
  /\ evaluation_stack = {}
  /\ ops = 0
  /\ \E column \in Columns, row \in RowNumbers :
       /\ post_init(CellReference(column, row))
       /\ conversion = [ref |-> CellReference(column, row),
                       indices |-> None, of_indices |-> None,
                       string |-> None, of_string |-> None]

\* r.to_indices()
RefToIndices ==
  /\ conversion.indices = None
  /\ conversion' = [conversion EXCEPT !.indices = Some(to_indices(conversion.ref))]
  /\ UNCHANGED << rows, columns, cells, evaluation_stack, ops >>

\* CellReference.from_indices(*r.to_indices())
RefFromIndices ==
  /\ conversion.indices # None
  /\ conversion.of_indices = None
  /\ conversion' =
       [conversion EXCEPT
          !.of_indices = Some(from_indices(conversion.indices[1][1],
                                           conversion.indices[1][2]))]
  /\ UNCHANGED << rows, columns, cells, evaluation_stack, ops >>

\* r.to_string()
RefToString ==
  /\ conversion.string = None
  /\ conversion' = [conversion EXCEPT !.string = Some(to_string(conversion.ref))]
  /\ UNCHANGED << rows, columns, cells, evaluation_stack, ops >>

\* CellReference.from_string(r.to_string()): [ok, ref], ok FALSE
\* where it raises ValueError
RefFromString ==
  /\ conversion.string # None
  /\ conversion.of_string = None
  /\ conversion' =
       [conversion EXCEPT
          !.of_string = Some(from_string(conversion.string[1]))]
  /\ UNCHANGED << rows, columns, cells, evaluation_stack, ops >>

RefNext == RefToIndices \/ RefFromIndices \/ RefToString \/ RefFromString

RefSpec == RefInit /\ [][RefNext]_vars

\* the round trips of the reference, as far as they have been made
round_trips ==
  /\ conversion.of_indices # None
     => conversion.of_indices = Some(conversion.ref)
  /\ conversion.of_string # None
     => conversion.of_string = Some([ok |-> TRUE, ref |-> conversion.ref])

\* the column index is the bijective base-26 number of the column, less one:
\* A is 0, Z is 25, AA is 26, and no two columns share an index
bijective_numbering ==
  /\ column_to_index(<< "A" >>) = 0
  /\ column_to_index(<< "Z" >>) = AlphabetSize - 1
  /\ column_to_index(<< "A", "A" >>) = AlphabetSize
  /\ \A column \in Columns \ { << >> } :
       column_to_index(column) = column_to_index(conversion.ref.column)
       => column = conversion.ref.column

\* --------------------------------------------------------------------- C16
\* C16: for every CellReference r that the constructor accepts (a non-empty
\* uppercase column, a row >= 1), from_indices(to_indices(r)) = r and
\* from_string(to_string(r)) = r, and the column index is the bijective
\* base-26 numbering with A at 0, Z at 25 and AA at 26.
C16_RoundTrips == round_trips /\ bijective_numbering

\* the same for the references whose column is written in A..Z
C16_LatinRoundTrips ==
  (\A i \in 1..Len(conversion.ref.column) : IsUpper(conversion.ref.column[i]))
  => round_trips /\ bijective_numbering

\* ------------------------------------------------- formulas of two operators
\* Formulas 'a op1 b op2 c' over every pair of binary operators, assigned
\* to A1: the service parses them and stores the tree on the cell.
\* The binary operators with their precedence levels, 1 the lowest.
Operators ==
  { [text |-> << "o", "r" >>, operator |-> "or", level |-> 1],
    [text |-> << "a", "n", "d" >>, operator |-> "and", level |-> 2],
    [text |-> << "=" >>, operator |-> "=", level |-> 3],
    [text |-> << "<" >>, operator |-> "<", level |-> 3],
    [text |-> << ">" >>, operator |-> ">", level |-> 3],
    [text |-> << "+" >>, operator |-> "+", level |-> 4],
    [text |-> << "-" >>, operator |-> "-", level |-> 4],
    [text |-> << "*" >>, operator |-> "*", level |-> 5],
    [text |-> << "/" >>, operator |-> "/", level |-> 5],
    [text |-> << "^" >>, operator |-> "^", level |-> 6] }

\* operands as they are written and the nodes they stand for
Two == [text |-> << "2" >>, node |-> NumberNode(2)]

Three == [text |-> << "3" >>, node |-> NumberNode(3)]

Four == [text |-> << "4" >>, node |-> NumberNode(4)]

Ten == [text |-> << "1", "0" >>, node |-> NumberNode(10)]

RefA1 ==
  [text |-> << "A", "1" >>, node |-> CellRefNode(CellReference(<< "A" >>, 1))]

RefB2 ==
  [text |-> << "B", "2" >>, node |-> CellRefNode(CellReference(<< "B" >>, 2))]

\* the operands (a, b, c) of a formula
OperandTriples ==
  { << Two, Three, Four >>, << Two, Three, Two >>, << RefB2, Ten, RefA1 >> }

\* the formula '=a op1 b op2 c'
infix(t, op1, op2) ==
  << "=" >> \o t[1].text \o << " " >> \o op1.text \o << " " >> \o t[2].text
    \o << " " >> \o op2.text \o << " " >> \o t[3].text

\* set_cell_expression(0, 0, '=a op1 b op2 c')
ParseFormula(t, op1, op2) ==
  /\ t \in OperandTriples /\ op1 \in Operators /\ op2 \in Operators
  /\ Install([service EXCEPT
                !.table = set_cell_expression(table, 0, 0,
                                              infix(t, op1, op2)).t])
  /\ UNCHANGED ops

ParseNext ==
  \E t \in OperandTriples, op1, op2 \in Operators : ParseFormula(t, op1, op2)

ParseSpec == Init /\ [][ParseNext]_vars

\* the formula A1 holds and the tree stored for it
formula == cell_at(cells, << 0, 0 >>).expression

tree == cell_at(cells, << 0, 0 >>).ast

\* --------------------------------------------------------------------- C17
\* C17: when op2 is on a higher precedence level than op1 (low to high: or,
\* and, comparison, additive, multiplicative, power), 'a op1 b op2 c' parses
\* to op1(a, op2(b, c)) and 'a op2 b op1 c' to op1(op2(a, b), c).
C17_Precedence ==
  \A t \in OperandTriples, op1, op2 \in Operators :
    op2.level > op1.level
    => /\ formula = infix(t, op1, op2)
          => tree = BinaryOpNode(op1.operator, t[1].node,
                      BinaryOpNode(op2.operator, t[2].node, t[3].node))
       /\ formula = infix(t, op2, op1)
          => tree = BinaryOpNode(op1.operator,
                      BinaryOpNode(op2.operator, t[1].node, t[2].node),
                      t[3].node)

\* A1 holds '=2 + 3 * 4' and the tree +(2, *(3, 4))
C17_Witness ==
  /\ formula = << "=", "2", " ", "+", " ", "3", " ", "*", " ", "4" >>
  /\ tree = BinaryOpNode("+", NumberNode(2),
                         BinaryOpNode("*", NumberNode(3), NumberNode(4)))

\* --------------------------------------------------------------------- C18
\* C18: two operators of the same level associate to the left when they are
\* or, and, additive or multiplicative, 'a - b - c' parsing to
\* -(-(a, b), c), and to the right when they are the power operator,
\* 'a ^ b ^ c' parsing to ^(a, ^(b, c)).
C18_Associativity ==
  \A t \in OperandTriples, op1, op2 \in Operators :
    (op1.level = op2.level /\ formula = infix(t, op1, op2))
    => /\ op1.level \in {1, 2, 4, 5}
          => tree = BinaryOpNode(op2.operator,
                      BinaryOpNode(op1.operator, t[1].node, t[2].node),
                      t[3].node)
       /\ op1.level = 6
          => tree = BinaryOpNode("^", t[1].node,
                      BinaryOpNode("^", t[2].node, t[3].node))

\* A1 holds '=2 ^ 3 ^ 2' and the tree ^(2, ^(3, 2))
C18_Witness ==
  /\ formula = << "=", "2", " ", "^", " ", "3", " ", "^", " ", "2" >>
  /\ tree = BinaryOpNode("^", NumberNode(2),
                         BinaryOpNode("^", NumberNode(3), NumberNode(2)))

\* ------------------------------------------- conjunctions and divisions
\* Sessions over A1, B1 and C1 whose formulas are conjunctions,
\* disjunctions and divisions: A1 takes a conjunction that ends in a
\* reference to itself, a disjunction or a conjunction that ends in a
\* reference to B1, a conjunction of C1 and 1/0, or 5/C1; B1 a text or 5/0;
\* C1 the numbers 0 and 5.
EvalEdits ==
  { << 0, 0, << "=", "0", " ", "a", "n", "d", " ", "A", "1" >> >>,
    << 0, 0, << "=", "1", " ", "o", "r", " ", "B", "1" >> >>,
    << 0, 0, << "=", "1", " ", "a", "n", "d", " ", "B", "1" >> >>,
    << 0, 0, << "=", "C", "1", " ", "a", "n", "d", " ", "1", "/", "0" >> >>,
    << 0, 0, << "=", "5", "/", "C", "1" >> >>,
    << 0, 1, << "x" >> >>,
    << 0, 1, << "=", "5", "/", "0" >> >>,
    << 0, 2, << "0" >> >>,
    << 0, 2, << "5" >> >> }

EvalNext ==
  \/ \E e \in EvalEdits : SetCellExpression(e[1], e[2], e[3])
  \/ CalculateAll

EvalSpec == Init /\ [][EvalNext]_vars

\* the evaluator as _calculate_cell starts it for the cell under key
seeded(key) == [service EXCEPT !.stack = {name(key)}]

\* node is an 'and' or an 'or' whose left operand, evaluated from ev,
\* decides the result
decided_by_left(node, ev) ==
  /\ node.type = "BinaryOpNode"
  /\ node.operator \in {"and", "or"}
  /\ accept(node.left, ev).exc = "None"
  /\ (node.operator = "and") = (accept(node.left, ev).value = 0)

\* no formula of the table reads the cell under key, but for the right
\* operands of the conjunctions and disjunctions that their left operand
\* decides
read_by_none(key) ==
  \A j \in 1..Len(cells) :
    (parsed_formula(cells[j].cell)
       /\ refers_to(cells[j].cell.ast, name(key)))
    => /\ decided_by_left(cells[j].cell.ast, seeded(cells[j].key))
       /\ ~refers_to(cells[j].cell.ast.left, name(key))

\* --------------------------------------------------------------------- C19
\* C19: 'L and R' with L = 0 and 'L or R' with L # 0 never evaluate R: the
\* pass gives the formula the value 0 or 1 and no error, whatever R would
\* raise, and the resolver is not called for the references of R, so a cell
\* that only R mentions is not materialised; the value of an and / or is
\* always 0 or 1.
C19_ShortCircuit ==
  [][CalculateAll
     => /\ \A i \in 1..Len(cells) :
             (parsed_formula(cells[i].cell)
                /\ decided_by_left(cells[i].cell.ast, seeded(cells[i].key)))
             => /\ cells'[i].cell.error = None
                /\ cells'[i].cell.cached_value
                     = Some(IF cells[i].cell.ast.operator = "and"
                            THEN 0 ELSE Scale)
        /\ \A i \in 1..Len(cells) :
             (parsed_formula(cells[i].cell)
                /\ cells[i].cell.ast.type = "BinaryOpNode"
                /\ cells[i].cell.ast.operator \in {"and", "or"}
                /\ cells'[i].cell.error = None)
             => cells'[i].cell.cached_value \in {Some(0), Some(Scale)}
        /\ \A key \in { << 0, 0 >>, << 0, 1 >>, << 0, 2 >> } :
             (~HasKey(cells, key) /\ read_by_none(key))
             => ~HasKey(cells', key)]_vars

\* A1 = '=1 or B1' holds 1 after a pass, and B1, which only the right
\* operand mentions, is still absent
C19_Witness ==
  /\ formula = << "=", "1", " ", "o", "r", " ", "B", "1" >>
  /\ cell_at(cells, << 0, 0 >>).cached_value = Some(Scale)
  /\ cell_at(cells, << 0, 0 >>).error = None
  /\ ~HasKey(cells, << 0, 1 >>)

\* node is a division whose operands, evaluated from ev, both return and
\* whose divisor is 0
division_by_zero(node, ev) ==
  /\ node.type = "BinaryOpNode"
  /\ node.operator = "/"
  /\ accept(node.left, ev).exc = "None"
  /\ accept(node.right, accept(node.left, ev).ev).exc = "None"
  /\ accept(node.right, accept(node.left, ev).ev).value = 0

\* the evaluation of node from ev divides by 0: node is such a division,
\* or a conjunction whose left operand is not 0 and whose right operand is
\* such a division
divides_by_zero(node, ev) ==
  \/ division_by_zero(node, ev)
  \/ /\ node.type = "BinaryOpNode"
     /\ node.operator = "and"
     /\ accept(node.left, ev).exc = "None"
     /\ accept(node.left, ev).value # 0
     /\ division_by_zero(node.right, accept(node.left, ev).ev)

\* --------------------------------------------------------------------- C20
\* C20: a formula whose evaluation divides by 0 ends calculate_all with the
\* EvaluationError of the division stored as its error and without a cached
\* value; the pass itself returns.
C20_DivisionByZero ==
  [][CalculateAll
     => \A i \in 1..Len(cells) :
          (parsed_formula(cells[i].cell)
             /\ divides_by_zero(cells[i].cell.ast, seeded(cells[i].key)))
          => /\ cells'[i].cell.error = Some("EvaluationError")
             /\ cells'[i].cell.cached_value = None]_vars

\* after a pass A1 = '=5/C1', with C1 = '0', and B1 = '=5/0' both hold the
\* error of the division and no value
C20_Witness ==
  /\ formula = << "=", "5", "/", "C", "1" >>
  /\ cell_at(cells, << 0, 2 >>).expression = << "0" >>
  /\ cell_at(cells, << 0, 0 >>).error = Some("EvaluationError")
  /\ cell_at(cells, << 0, 0 >>).cached_value = None
  /\ cell_at(cells, << 0, 1 >>).expression = << "=", "5", "/", "0" >>
  /\ cell_at(cells, << 0, 1 >>).error = Some("EvaluationError")
  /\ cell_at(cells, << 0, 1 >>).cached_value = None

\* ------------------------------------------------- sums over shared cells
\* Sessions over A1..D1 whose formulas are sums of references: A1 adds B1
\* to itself or to C1, B1 and C1 refer to D1, and D1 holds 5 or refers back
\* to A1.
SumEdits ==
  { << 0, 0, << "=", "B", "1", "+", "B", "1" >> >>,
    << 0, 0, << "=", "B", "1", "+", "C", "1" >> >>,
    << 0, 1, << "=", "D", "1" >> >>,
    << 0, 1, << "5" >> >>,
    << 0, 2, << "=", "D", "1" >> >>,
    << 0, 3, << "5" >> >>,
    << 0, 3, << "=", "A", "1" >> >> }

SumNext ==
  \/ \E e \in SumEdits : SetCellExpression(e[1], e[2], e[3])
  \/ CalculateAll

SumSpec == Init /\ [][SumNext]_vars

\* the tree node can be evaluated over the cells cs of table t through
\* chains of at most n references: its operators never raise, and each of
\* its references names a cell of the table without an error that is
\* empty, an integer literal, or a parsed formula that can be evaluated
\* through chains of at most n - 1 references.  With n the number of cells,
\* no chain comes back to a cell it passed.
RECURSIVE evaluable(_, _, _)
evaluable(t, node, n) ==
  IF node.type = "NumberNode" THEN TRUE
  ELSE IF node.type = "UnaryOpNode" THEN evaluable(t, node.operand, n)
  ELSE IF node.type = "BinaryOpNode"
    THEN /\ node.operator \in {"+", "-", "*", "=", "<", ">", "and", "or"}
         /\ evaluable(t, node.left, n)
         /\ evaluable(t, node.right, n)
  ELSE /\ n > 0
       /\ validate_indices(t, to_indices(node.reference)[1],
                           to_indices(node.reference)[2])
       /\ cell_at(t.cells, to_indices(node.reference)).error = None
       /\ \/ is_empty(cell_at(t.cells, to_indices(node.reference)))
          \/ /\ is_literal(cell_at(t.cells, to_indices(node.reference)))
             /\ int_of_text(cell_at(t.cells,
                              to_indices(node.reference)).expression).ok
          \/ /\ parsed_formula(cell_at(t.cells, to_indices(node.reference)))
             /\ evaluable(t, cell_at(t.cells, to_indices(node.reference)).ast,
                          n - 1)

\* --------------------------------------------------------------------- C21
\* C21: a formula that names one cell in two sibling branches ('=B1 + B1')
\* or reaches one cell by two paths (A1 = '=B1 + C1', B1 = '=D1',
\* C1 = '=D1') gets no circular-reference error from a pass when no chain
\* of references from it comes back to a cell on the chain: if its cells
\* can be evaluated, the pass leaves it with a value and no error.
C21_SharedCellsAreNoCycle ==
  [][CalculateAll
     => \A i \in 1..Len(cells) :
          (parsed_formula(cells[i].cell)
             /\ ~refers_to(cells[i].cell.ast, name(cells[i].key))
             /\ evaluable(table, cells[i].cell.ast, Len(cells)))
          => /\ cells'[i].cell.error = None
             /\ cells'[i].cell.cached_value # None]_vars

\* after a pass A1 = '=B1 + C1' holds 10, reached through B1 = '=D1' and
\* C1 = '=D1' with D1 = '5'
C21_Witness ==
  /\ cell_at(cells, << 0, 0 >>).expression
       = << "=", "B", "1", "+", "C", "1" >>
  /\ cell_at(cells, << 0, 1 >>).expression = << "=", "D", "1" >>
  /\ cell_at(cells, << 0, 2 >>).expression = << "=", "D", "1" >>
  /\ cell_at(cells, << 0, 3 >>).expression = << "5" >>
  /\ cell_at(cells, << 0, 0 >>).cached_value = Some(10 * Scale)
  /\ cell_at(cells, << 0, 0 >>).error = None

\* ------------------------------------------------- references to literals
\* Sessions over A1, B1 and C1 in which formulas refer to literal cells:
\* A1 is a reference to C1, a conjunction that its left operand decides
\* before C1, or the sum of C1 and B1; B1 is 2 or a reference to C1; C1 is
\* a text, 5 or -3.
LiteralEdits ==
  { << 0, 0, << "=", "C", "1" >> >>,
    << 0, 0, << "=", "0", " ", "a", "n", "d", " ", "C", "1" >> >>,
    << 0, 0, << "=", "C", "1", "+", "B", "1" >> >>,
    << 0, 1, << "2" >> >>,
    << 0, 1, << "=", "C", "1" >> >>,
    << 0, 2, << "x" >> >>,
    << 0, 2, << "5" >> >>,
    << 0, 2, << "-", "3" >> >> }

LiteralNext ==
  \/ \E e \in LiteralEdits : SetCellExpression(e[1], e[2], e[3])
  \/ CalculateAll

LiteralSpec == Init /\ [][LiteralNext]_vars

\* the tree node is a reference to a literal cell of cs whose text is an
\* integer (numeric) or is none
literal_reference(cs, node, numeric) ==
  /\ node.type = "CellRefNode"
  /\ HasKey(cs, to_indices(node.reference))
  /\ is_literal(Lookup(cs, to_indices(node.reference)))
  /\ int_of_text(Lookup(cs, to_indices(node.reference)).expression).ok
       = numeric

\* some reference of the tree node is a reference to a non-numeric literal
RECURSIVE refers_to_text(_, _)
refers_to_text(cs, node) ==
  IF node.type = "UnaryOpNode" THEN refers_to_text(cs, node.operand)
  ELSE IF node.type = "BinaryOpNode"
    THEN refers_to_text(cs, node.left) \/ refers_to_text(cs, node.right)
  ELSE literal_reference(cs, node, FALSE)

\* the pass leaves every literal cell as it was, and gives a formula that
\* is a reference to an integer literal that integer
literals_are_read_only ==
  \A i \in 1..Len(cells) :
    /\ is_literal(cells[i].cell) => cells'[i].cell = cells[i].cell
    /\ (parsed_formula(cells[i].cell)
          /\ literal_reference(cells, cells[i].cell.ast, TRUE))
       => /\ cells'[i].cell.error = None
          /\ cells'[i].cell.cached_value
               = Some(Scale * int_of_text(
                        Lookup(cells, to_indices(
                          cells[i].cell.ast.reference)).expression).value)

\* --------------------------------------------------------------------- C22
\* C22, as stated: calculate_all never sets the cached value or the error
\* of a literal cell; a formula that refers to an integer literal gets that
\* integer for the reference; and every formula that holds a reference to a
\* non-numeric literal, anywhere in it, ends the pass with a
\* CellReferenceError.
C22_AnyReferenceToText ==
  [][CalculateAll
     => /\ literals_are_read_only
        /\ \A i \in 1..Len(cells) :
             (parsed_formula(cells[i].cell)
                /\ refers_to_text(cells, cells[i].cell.ast))
             => failed_with(cells'[i].cell, "CellReferenceError")]_vars

\* C22, amended: calculate_all never sets the cached value or the error of
\* a literal cell; a formula that refers to an integer literal gets that
\* integer for the reference; and every formula whose evaluation reaches a
\* reference to a non-numeric literal first (the reference is its leftmost
\* operand, as in '=C1' or '=C1+B1') ends the pass with a
\* CellReferenceError.
C22_TextReferenceFirst ==
  [][CalculateAll
     => /\ literals_are_read_only
        /\ \A i \in 1..Len(cells) :
             (parsed_formula(cells[i].cell)
                /\ literal_reference(cells, first_operand(cells[i].cell.ast),
                                     FALSE))
             => failed_with(cells'[i].cell, "CellReferenceError")]_vars

\* after a pass C1 = 'x' is as the edit left it, A1 = '=C1+B1' holds the
\* CellReferenceError and B1 = '2' is untouched
C22_Witness ==
  /\ cell_at(cells, << 0, 2 >>)
       = [NewCell EXCEPT !.expression = << "x" >>, !.is_dirty = FALSE]
  /\ cell_at(cells, << 0, 1 >>).expression = << "2" >>
  /\ cell_at(cells, << 0, 1 >>).cached_value = None
  /\ cell_at(cells, << 0, 0 >>).expression
       = << "=", "C", "1", "+", "B", "1" >>
  /\ failed_with(cell_at(cells, << 0, 0 >>), "CellReferenceError")

\* ------------------------------------------------------- what cells display
\* Sessions on A1 of a table of one row: a sum with the cell OR1, a
\* comparison, a sum of numbers, a negation, a formula that does not parse,
\* a number and nothing; the table is given 408 columns, which puts OR1
\* inside it, or one.
DisplayEdits ==
  { << 0, 0, << "=", "O", "R", "1", "+", "5" >> >>,
    << 0, 0, << "=", "1", "<", "2" >> >>,
    << 0, 0, << "=", "2", "+", "3" >> >>,
    << 0, 0, << "=", "n", "o", "t", " ", "0" >> >>,
    << 0, 0, << "=", "1", "+" >> >>,
    << 0, 0, << " ", "7" >> >>,
    << 0, 0, << >> >> }

DisplayDimensions == { << 1, 408 >>, << 1, 1 >> }

DisplayNext ==
  \/ \E e \in DisplayEdits : SetCellExpression(e[1], e[2], e[3])
  \/ \E d \in DisplayDimensions : ResizeTable(d[1], d[2])
  \/ CalculateAll

DisplaySpec == Init /\ [][DisplayNext]_vars

\* the tree node holds a comparison or a logical operator
RECURSIVE has_logical_operator(_)
has_logical_operator(node) ==
  IF node.type = "UnaryOpNode"
  THEN node.operator = "not" \/ has_logical_operator(node.operand)
  ELSE IF node.type = "BinaryOpNode"
    THEN \/ node.operator \in {"=", "<", ">", "and", "or"}
         \/ has_logical_operator(node.left)
         \/ has_logical_operator(node.right)
  ELSE FALSE

\* --------------------------------------------------------------------- C23
\* C23: a cell displays, in this order of priority: the error marker when
\* it holds an error; its stripped text when it is a literal; when it is a
\* formula with a cached value, TRUE or FALSE exactly when the formula
\* holds a comparison or a logical operator, and the cached value's
\* decimal otherwise; the empty text when it is empty; '?' when it is a
\* formula with neither error nor value.
C23_DisplayValue ==
  \A i \in 1..Len(cells) :
    get_display_value(cells[i].cell)
      = IF has_error(cells[i].cell) THEN ErrorMarker
        ELSE IF is_literal(cells[i].cell)
          THEN Text(Strip(cells[i].cell.expression))
        ELSE IF is_formula(cells[i].cell)
                  /\ cells[i].cell.cached_value # None
          THEN IF has_logical_operator(cells[i].cell.ast)
               THEN IF cells[i].cell.cached_value[1] # 0
                    THEN Text(<< "T", "R", "U", "E" >>)
                    ELSE Text(<< "F", "A", "L", "S", "E" >>)
               ELSE Str(cells[i].cell.cached_value[1])
        ELSE IF is_empty(cells[i].cell) THEN Text(<< >>)
        ELSE Text(<< "?" >>)

\* ------------------------------------------------- the parser on any input
\* Formulas are written word by word into A1: each step stores the formula
\* with one more word, up to MaxWords words; the inputs the parser's tests
\* name are stored as they are written there, and they alone open a
\* parenthesis, which the words can close.
MaxWords == 3

Words ==
  { << "2" >>, << "+" >>, << "*" >>, << ")" >>, << "<" >>, << "A", "0" >>,
    << "n", "o", "t" >> }

\* trailing input: '2 3', '1 < 2 < 3', '(2 + 3) )'
TrailingTexts ==
  { << "2", " ", "3" >>,
    << "1", " ", "<", " ", "2", " ", "<", " ", "3" >>,
    << "(", "2", " ", "+", " ", "3", ")", " ", ")" >> }

\* incomplete input: '(2 + 3', '2 +', '* 3' and the empty text
IncompleteTexts ==
  { << "(", "2", " ", "+", " ", "3" >>, << "2", " ", "+" >>,
    << "*", " ", "3" >>, << >> }

\* the formula text of A1, '' while A1 holds nothing
formula_text == get_formula_expression(cell_at(cells, << 0, 0 >>))

\* set_cell_expression(0, 0, '=' + the formula of A1 + ' ' + word)
ExtendFormula(word) ==
  /\ ops < MaxWords
  /\ ops' = ops + 1
  /\ Install([service EXCEPT
                !.table = set_cell_expression(
                            table, 0, 0,
                            << "=" >> \o formula_text \o << " " >> \o word).t])

\* set_cell_expression(0, 0, '=' + text)
ParseText(text) ==
  /\ Install([service EXCEPT
                !.table = set_cell_expression(table, 0, 0,
                                              << "=" >> \o text).t])
  /\ UNCHANGED ops

TotalNext ==
  \/ \E word \in Words : ExtendFormula(word)
  \/ \E text \in TrailingTexts \cup IncompleteTexts : ParseText(text)

TotalSpec == Init /\ [][TotalNext]_vars

\* the tokens a tree was built from: one for each number, reference and
\* operator
RECURSIVE tokens_of(_)
tokens_of(node) ==
  IF node.type = "UnaryOpNode" THEN 1 + tokens_of(node.operand)
  ELSE IF node.type = "BinaryOpNode"
    THEN 1 + tokens_of(node.left) + tokens_of(node.right)
  ELSE 1

\* the tokens of a text other than parentheses and the end of input
written_tokens(text) ==
  LET lexed == tokenize(Strip(text))
  IN  Cardinality({ i \in 1..Len(lexed.tokens) :
                      lexed.tokens[i].type \notin {"LPAREN", "RPAREN", "EOF"} })

\* --------------------------------------------------------------------- C24
\* C24: the parser is total: for every formula text it either returns a
\* tree, and then it has consumed every token up to the end of the input,
\* or raises a syntax error, never anything else; trailing input ('2 3',
\* '1 < 2 < 3', '(2 + 3) )') and incomplete input ('(2 + 3', '2 +', '* 3',
\* the empty text) raise the syntax error.
C24_ParserIsTotal ==
  \A i \in 1..Len(cells) :
    is_formula(cells[i].cell) =>
      LET cell == cells[i].cell
          text == get_formula_expression(cell)
      IN  /\ (cell.ast # NoneNode) # (cell.error = Some("SyntaxError"))
          /\ cell.ast # NoneNode =>
               /\ tokenize(Strip(text)).ok
               /\ tokens_of(cell.ast) = written_tokens(text)
          /\ text \in TrailingTexts \cup IncompleteTexts =>
               cell.error = Some("SyntaxError")

\* '(2 + 3', a syntax error, is completed by ')' and parsed to the sum
C24_Witness ==
  /\ formula_text = << "(", "2", " ", "+", " ", "3", " ", ")" >>
  /\ cell_at(cells, << 0, 0 >>).ast
       = BinaryOpNode("+", NumberNode(2), NumberNode(3))
  /\ cell_at(cells, << 0, 0 >>).error = None

\* ----------------------------------------------------- the evaluation stack
\* Sessions on A1, B1 and C1 with chains of references, cycles, a text, a
\* division by zero and a reference the short circuit skips.
StackEdits ==
  { << 0, 0, << "=", "B", "1", "+", "C", "1" >> >>,
    << 0, 0, << "=", "C", "1", " ", "a", "n", "d", " ", "B", "1" >> >>,
    << 0, 1, << "=", "C", "1" >> >>,
    << 0, 1, << "=", "A", "1" >> >>,
    << 0, 1, << "x" >> >>,
    << 0, 2, << "5" >> >>,
    << 0, 2, << "=", "1", "/", "0" >> >>,
    << 0, 2, << "=", "A", "1" >> >> }

StackNext ==
  \/ \E e \in StackEdits : SetCellExpression(e[1], e[2], e[3])
  \/ CalculateAll

StackSpec == Init /\ [][StackNext]_vars

\* the names of the cells the table holds
names == { name(cells[i].key) : i \in 1..Len(cells) }

\* the evaluator with the stack s
stacked(s) == [service EXCEPT !.stack = s]

\* --------------------------------------------------------------------- C25
\* C25: the evaluation stack is kept as a stack: an evaluation starts with
\* the current cell alone on it; every visit of a cell reference, whether it
\* returns or raises, leaves the stack as it found it, whatever is on it
\* (the seed and the references being resolved: a nested resolution does
\* not clear it); and when the evaluation ends the stack is the current
\* cell alone again.
C25_StackDiscipline ==
  /\ \A i \in 1..Len(cells) : \A s \in SUBSET names :
       visit_cell_ref(CellRefNode(from_indices(cells[i].key[1],
                                               cells[i].key[2])),
                      stacked(s)).ev.stack = s
  /\ \A i \in 1..Len(cells) :
       parsed_formula(cells[i].cell) =>
         evaluate(cells[i].cell.ast,
                  from_indices(cells[i].key[1], cells[i].key[2]),
                  service).ev.stack = {name(cells[i].key)}
  /\ evaluation_stack # {} =>
       \E i \in 1..Len(cells) : evaluation_stack = {name(cells[i].key)}

\* a pass over '=B1+C1', '=C1' and '=1/0' has ended and the stack holds the
\* last cell evaluated
C25_Witness ==
  /\ Len(cells) = 3
  /\ cell_at(cells, << 0, 0 >>).expression
       = << "=", "B", "1", "+", "C", "1" >>
  /\ cell_at(cells, << 0, 1 >>).expression = << "=", "C", "1" >>
  /\ cell_at(cells, << 0, 2 >>).error = Some("EvaluationError")
  /\ cell_at(cells, << 0, 0 >>).error = Some("CellReferenceError")
  /\ evaluation_stack \in { {name(<< 0, 0 >>)}, {name(<< 0, 1 >>)},
                            {name(<< 0, 2 >>)} }

\* ------------------------------------------------------ one pass, each cell
\* Sessions on A1, B1 and C1 with a self-reference, cycles of two and three
\* cells, a text and a number.
PassEdits ==
  { << 0, 0, << "=", "A", "1" >> >>,
    << 0, 0, << "=", "B", "1" >> >>,
    << 0, 1, << "=", "C", "1" >> >>,
    << 0, 1, << "=", "A", "1" >> >>,
    << 0, 2, << "x" >> >>,
    << 0, 2, << "5" >> >>,
    << 0, 2, << "=", "B", "1" >> >> }

PassNext ==
  \/ \E e \in PassEdits : SetCellExpression(e[1], e[2], e[3])
  \/ CalculateAll

PassSpec == Init /\ [][PassNext]_vars

\* the parsed formulas the table holds, in the order of insertion
parsed_formulas ==
  LET Parsed_(e) == parsed_formula(e.cell)
  IN  SelectSeq(cells, Parsed_)

\* the cell (row, col) as its evaluation leaves it when it follows the
\* evaluations of the entries before
evaluated_after(before, key) ==
  Lookup(calculate_cell(calculate_loop(before, service), key[1], key[2])
           .table.cells, key)

\* --------------------------------------------------------------------- C26
\* C26: a calculate_all pass ends on every table, tables with cycles and
\* self-references included: in every state the pass has an outcome, whose
\* stack holds nothing but a cell of the table; and every formula cell that
\* holds a parsed tree when the pass starts is evaluated once as the
\* pass's current cell, in the order of insertion: it ends the pass as its
\* one evaluation, made after the evaluations of the formulas before it,
\* left it.
C26_EveryFormulaOnce ==
  [][/\ calculate_all(service).stack \subseteq names \cup evaluation_stack
     /\ CalculateAll =>
          \A k \in 1..Len(parsed_formulas) :
            cell_at(cells', parsed_formulas[k].key)
              = evaluated_after(SubSeq(parsed_formulas, 1, k - 1),
                                parsed_formulas[k].key)]_vars

\* a pass over the cycle A1 = '=B1', B1 = '=C1', C1 = '=B1' has ended with
\* an error in each of them
C26_Witness ==
  /\ cell_at(cells, << 0, 0 >>).expression = << "=", "B", "1" >>
  /\ cell_at(cells, << 0, 1 >>).expression = << "=", "C", "1" >>
  /\ cell_at(cells, << 0, 2 >>).expression = << "=", "B", "1" >>
  /\ \A i \in 1..Len(cells) :
       cells[i].cell.error # None /\ ~cells[i].cell.is_dirty

\* ---------------------------------------------------------------------- C27
\* every cell the tree refers to is inside the table t
RECURSIVE refers_inside(_, _)
refers_inside(t, node) ==
  IF node.type = "CellRefNode"
  THEN validate_indices(t, to_indices(node.reference)[1],
                        to_indices(node.reference)[2])
  ELSE IF node.type = "UnaryOpNode" THEN refers_inside(t, node.operand)
  ELSE IF node.type = "BinaryOpNode"
    THEN refers_inside(t, node.left) /\ refers_inside(t, node.right)
  ELSE TRUE

\* C27: when resize_table keeps a formula cell and every cell it refers to
\* inside the table, the calculate_all pass that follows gives the formula
\* the cached value, or the error, that the last pass before the resize
\* gave it: the cell is not left without its tree, unevaluated, pending.
C27_ResizeKeepsResults ==
  [][(\E d \in Dimensions : ResizeTable(d[1], d[2])) =>
       \A i \in 1..Len(cells) :
         (/\ parsed_formula(cells[i].cell)
          /\ cell_at(calculate_all(service).table.cells, cells[i].key)
               = cells[i].cell
          /\ validate_indices([rows |-> rows', columns |-> columns'],
                               cells[i].key[1], cells[i].key[2])
          /\ refers_inside([rows |-> rows', columns |-> columns'],
                           cells[i].cell.ast))
         => /\ cell_at(recalculated, cells[i].key).cached_value
                 = cells[i].cell.cached_value
            /\ (cell_at(recalculated, cells[i].key).error # None)
                 = (cells[i].cell.error # None)]_vars

\* ---------------------------------------------------------------------- C28
\* C28: set_cell_expression with the text the cell already holds changes
\* neither the cell's cached value nor its error, also when the cell is a
\* formula that holds the evaluation error of the last pass.
C28_SameTextKeepsResults ==
  [][\A e \in Edits :
       (/\ SetCellExpression(e[1], e[2], e[3])
        /\ HasKey(cells, << e[1], e[2] >>)
        /\ cell_at(cells, << e[1], e[2] >>).expression = e[3])
       => /\ cell_at(cells', << e[1], e[2] >>).cached_value
               = cell_at(cells, << e[1], e[2] >>).cached_value
          /\ cell_at(cells', << e[1], e[2] >>).error
               = cell_at(cells, << e[1], e[2] >>).error]_vars

\* ---------------------------------------------------------------------- C29
\* C29: in every state the service's operations reach, a formula cell that
\* is not dirty holds a cached value or an error: a formula that waits for
\* its evaluation is marked dirty.
C29_PendingIsDirty ==
  \A i \in 1..Len(cells) :
    (is_formula(cells[i].cell) /\ ~cells[i].cell.is_dirty)
    => (cells[i].cell.cached_value # None \/ cells[i].cell.error # None)

\* ---------------------------------------------------------------------- C30
\* the service after n calculate_all passes in a row
RECURSIVE passes(_, _)
passes(ev, n) == IF n = 0 THEN ev ELSE passes(calculate_all(ev), n - 1)

\* the formula cells among the entries cs
formula_cells(cs) == { i \in 1..Len(cs) : is_formula(cs[i].cell) }

\* a cell as its expression alone gives it: a formula with the tree its
\* text parses to, and no error of an earlier pass
as_written(cell) ==
  [cell EXCEPT !.error = None,
               !.ast = IF is_formula(cell)
                       THEN parse(get_formula_expression(cell)).node
                       ELSE NoneNode]

\* the evaluator state ev with every cell as its expression gives it
from_expressions(ev) ==
  [ev EXCEPT !.table.cells =
     [i \in 1..Len(ev.table.cells) |->
        [key |-> ev.table.cells[i].key,
         cell |-> as_written(ev.table.cells[i].cell)]]]

\* the evaluation of the formula of entry i over the current expressions
evaluation_of(ev, i) ==
  evaluate(from_expressions(ev).table.cells[i].cell.ast,
           from_indices(ev.table.cells[i].key[1], ev.table.cells[i].key[2]),
           from_expressions(ev))

\* the service after as many passes as it holds formula cells
settled == passes(service, Cardinality(formula_cells(cells)))

\* C30: as many calculate_all passes in a row as the table holds formula
\* cells reach a state that one more pass leaves with the same cached
\* values and the same cells in error, and in which every formula whose
\* evaluation over the current expressions succeeds holds a cached value.
C30_PassesSettle ==
  /\ \A i \in 1..Len(settled.table.cells) :
       LET key == settled.table.cells[i].key
           again == cell_at(calculate_all(settled).table.cells, key)
       IN  /\ again.cached_value = settled.table.cells[i].cell.cached_value
           /\ (again.error # None)
                = (settled.table.cells[i].cell.error # None)
  /\ \A i \in formula_cells(cells) :
       (/\ parse(get_formula_expression(cells[i].cell)).ok
        /\ evaluation_of(service, i).exc = "None")
       => cell_at(settled.table.cells, cells[i].key).cached_value # None

====
